---------------------------- MODULE Spec2Model ----------------------------
(***************************************************************************)
(* Model of the live presentation session pipeline of the Zynk backend:    *)
(* the /ws/video websocket endpoint (backend/main.py), the VideoRecorder   *)
(* and its upload helper (backend/video_recorder.py) and the FeedbackAgent *)
(* (backend/feedback_agent/feedback_agent.py).                             *)
(*                                                                         *)
(* Time is the event loop's monotonic clock, counted in ticks of 1/300 s,  *)
(* so that a hundredth of a second is 3 ticks and round(x, 2) is a real    *)
(* rounding with no ties.  Text is a sequence of one-character strings, so *)
(* that strip(), upper(), lower() and startswith() are computed.           *)
(***************************************************************************)
EXTENDS Integers, Sequences, FiniteSets, TLC

(***************************************************************************)
(* Bounds of the model.                                                    *)
(***************************************************************************)
MaxChunks == 2
MaxFrames == 2
MaxAudio == 1
MaxClock == 4000
ScenarioFrames == 8

(***************************************************************************)
(* Text: str.strip(), str.upper(), str.lower(), str.startswith().          *)
(***************************************************************************)
LowerCase == <<"a","b","c","d","e","f","g","h","i","j","k","l","m","n","o","p","q","r","s","t","u","v","w","x","y","z">>
UpperCase == <<"A","B","C","D","E","F","G","H","I","J","K","L","M","N","O","P","Q","R","S","T","U","V","W","X","Y","Z">>

IsSpace(c) == c \in {" ", "\n", "\t"}

IndexIn(c, alphabet) ==
    IF \E i \in 1..Len(alphabet) : alphabet[i] = c
    THEN CHOOSE i \in 1..Len(alphabet) : alphabet[i] = c
    ELSE 0

UpperChar(c) == IF IndexIn(c, LowerCase) > 0 THEN UpperCase[IndexIn(c, LowerCase)] ELSE c
LowerChar(c) == IF IndexIn(c, UpperCase) > 0 THEN LowerCase[IndexIn(c, UpperCase)] ELSE c

Upper(t) == [i \in 1..Len(t) |-> UpperChar(t[i])]
Lower(t) == [i \in 1..Len(t) |-> LowerChar(t[i])]

RECURSIVE LStrip(_)
LStrip(t) == IF t # <<>> /\ IsSpace(Head(t)) THEN LStrip(Tail(t)) ELSE t

RECURSIVE RStrip(_)
RStrip(t) ==
    IF t # <<>> /\ IsSpace(t[Len(t)]) THEN RStrip(SubSeq(t, 1, Len(t) - 1)) ELSE t

Strip(t) == RStrip(LStrip(t))

StartsWith(t, prefix) ==
    /\ Len(t) >= Len(prefix)
    /\ SubSeq(t, 1, Len(prefix)) = prefix

(***************************************************************************)
(* Literals of the program.                                                *)
(***************************************************************************)
FEEDBACK_INTERVAL == 1500
SENTINEL_OK == <<"O","K">>
ERROR_MARKER == <<"e","r","r","o","r">>
ANONYMOUS == "anonymous"
None == [is_none |-> TRUE]
PLACEHOLDER == <<"A","I"," ","f","e","e","d","b","a","c","k"," ","u","n","a","v","a","i","l","a","b","l","e"," ","(","A","P","I"," ","n","o","t"," ","c","o","n","f","i","g","u","r","e","d",")">>
NO_FRAMES_ERROR == <<"E","r","r","o","r",":"," ","N","o"," ","v","a","l","i","d"," ","i","m","a","g","e"," ","f","r","a","m","e","s"," ","r","e","c","e","i","v","e","d"," ","f","o","r"," ","a","n","a","l","y","s","i","s">>
ANALYZE_ERROR_PREFIX == <<"E","r","r","o","r"," ","a","n","a","l","y","z","i","n","g"," ","s","e","g","m","e","n","t",":"," ">>
WINDOW_FRAMES == 6


(***************************************************************************)
(* Inputs of the environment.  A frame payload is the id of its content    *)
(* and what the bytes are: a base64 image, the same behind a data-URL      *)
(* prefix, an image of fewer than 100 bytes, or bytes that do not decode.  *)
(***************************************************************************)
Sessions == {"s1", "s2"}
UserIds == {"u1", "u2"}
FrameKinds == {"img", "dataurl", "tiny", "junk"}
AudioPayloads == {"a1", "a2", "junk", ""}
BlobPayloads == {"webm", "junk", ""}
ToolOutcomes == {"ok", "nonzero", "missing", "fault"}
TickSteps == {700, 800, 1500}

REPLY_OK == <<"O","K">>
REPLY_ok == <<" ","o","k","\n">>
REPLY_BLANK == <<" "," ">>
REPLY_SLOW == <<"S","l","o","w"," ","d","o","w","n",".">>
REPLY_OKAY == <<"O","k","a","y",","," ","b","r","e","a","t","h","e",".">>
REPLY_ERRORS == <<"E","R","R","O","R","S"," ","i","n"," ","p","o","s","t","u","r","e",".">>
FAULT_TEXT == <<"t","i","m","e","d"," ","o","u","t","\n">>

BackendOutcomes ==
    {[kind |-> "text", text |-> r] :
        r \in {REPLY_OK, REPLY_ok, REPLY_BLANK, REPLY_SLOW, REPLY_OKAY, REPLY_ERRORS}}
    \cup {[kind |-> "raise", text |-> FAULT_TEXT]}

(***************************************************************************)
(* Files of a session directory, as (stem, extension).                     *)
(***************************************************************************)
temp_video_path == [stem |-> "video", ext |-> ".mp4"]
temp_audio_path == [stem |-> "audio", ext |-> ".webm"]
temp_combined_video_path == [stem |-> "combined", ext |-> ".webm"]
final_video_path == [stem |-> "final", ext |-> ".mp4"]

Max(a, b) == IF a >= b THEN a ELSE b

\* round(x, 2): ticks of 1/300 s to the nearest hundredth of a second.
Round2(t) == (t + 1) \div 3

(***************************************************************************)
(* main.py: the feedback trigger, the segment bounds, the classification.  *)
(***************************************************************************)
ShouldTriggerStrict(current_time, last_feedback_time) ==
    current_time - last_feedback_time > FEEDBACK_INTERVAL

ShouldTrigger(current_time, last_feedback_time) ==
    current_time - last_feedback_time >= FEEDBACK_INTERVAL

SegmentBoundsUnclamped(session_start_time, last_feedback_time, current_time) ==
    [start |-> last_feedback_time - session_start_time,
     end   |-> current_time - session_start_time]

SegmentBounds(session_start_time, last_feedback_time, current_time) ==
    LET current_offset == current_time - session_start_time
        segment_start  == Max(0, last_feedback_time - session_start_time)
        segment_end    == Max(segment_start, current_offset)
    IN  [start |-> segment_start, end |-> segment_end]

IsActionableCaseSensitive(feedback_text) ==
    /\ feedback_text # <<>>
    /\ feedback_text # SENTINEL_OK
    /\ ~StartsWith(Lower(feedback_text), ERROR_MARKER)

IsActionable(feedback_text) ==
    /\ feedback_text # <<>>
    /\ Upper(feedback_text) # SENTINEL_OK
    /\ ~StartsWith(Lower(feedback_text), ERROR_MARKER)

\* frame_buffer[:6], the first frames of the window instead of the last.
FirstN(seq, n) == IF Len(seq) <= n THEN seq ELSE SubSeq(seq, 1, n)

LastN(seq, n) == IF Len(seq) <= n THEN seq ELSE SubSeq(seq, Len(seq) - n + 1, Len(seq))

(***************************************************************************)
(* feedback_agent.py: FeedbackAgent.analyze_segment.                       *)
(***************************************************************************)
\* A frame the agent keeps: it decodes, has at least 100 bytes and opens as an image.
UsableForAnalysis(payload) == payload.kind \in {"img", "dataurl"}

AnalyzeSegment(agent, frames, audio_data, backend) ==
    IF ~agent.client
    THEN PLACEHOLDER
    ELSE IF \A i \in 1..Len(frames) : ~UsableForAnalysis(frames[i])
         THEN NO_FRAMES_ERROR
         ELSE IF backend.kind = "text"
              THEN Strip(backend.text)
              ELSE ANALYZE_ERROR_PREFIX \o backend.text

(***************************************************************************)
(* video_recorder.py: VideoRecorder.                                       *)
(***************************************************************************)
NewRecorder(user_id) ==
    [user_id |-> user_id, frames |-> <<>>, audio_chunks |-> <<>>,
     has_combined_blob |-> FALSE]

\* base64.b64decode + Image.open succeed (after the data-URL prefix is cut).
DecodesAsImage(payload) == payload.kind \in {"img", "dataurl", "tiny"}

\* add_frame without its try/except: the list grows whatever the payload.
AddFrameUnchecked(rec, payload) ==
    [rec EXCEPT !.frames = Append(@, payload.id)]

AddFrame(rec, payload) ==
    IF DecodesAsImage(payload)
    THEN [rec EXCEPT !.frames = Append(@, payload.id)]
    ELSE rec

AddAudioChunk(rec, base64_audio) ==
    IF base64_audio # "junk"
    THEN [rec EXCEPT !.audio_chunks = Append(@, base64_audio)]
    ELSE rec

\* set_final_webm_blob: the recorder and the session directory afterwards.
SetFinalWebmBlob(rec, files, base64_blob, write_ok) ==
    IF base64_blob # "junk" /\ write_ok
    THEN [rec   |-> [rec EXCEPT !.has_combined_blob = TRUE],
          files |-> files \cup {temp_combined_video_path}]
    ELSE [rec   |-> [rec EXCEPT !.has_combined_blob = FALSE],
          files |-> files]

\* The encoder's inputs at finalize: how each external step ends, and whether a
\* tool run that exits non-zero leaves a partial output file behind.
EncoderOutcomes ==
    [primary : ToolOutcomes, fallback : ToolOutcomes, writer : {"ok", "fault"},
     mux : ToolOutcomes, partial : BOOLEAN]

\* save_video: status "path" (a path is returned), "none" (None is returned) or
\* "raise" (an exception leaves the method), the session directory afterwards,
\* the route taken and the external tool runs made.
SaveVideoBlob(rec, files, enc) ==
    LET left(run) == IF run = "nonzero" /\ enc.partial THEN {final_video_path} ELSE {}
    IN
    IF enc.primary = "ok"
    THEN [status |-> "path", path |-> final_video_path,
          files |-> files \cup {final_video_path},
          route |-> "blob", runs |-> <<"primary">>]
    ELSE IF enc.primary = "nonzero"
         THEN IF enc.fallback = "ok"
              THEN [status |-> "path", path |-> final_video_path,
                    files |-> files \cup {final_video_path},
                    route |-> "blob", runs |-> <<"primary", "fallback">>]
              ELSE IF enc.fallback = "nonzero"
                   THEN [status |-> "none", path |-> None,
                         files |-> files \cup left("nonzero"),
                         route |-> "blob", runs |-> <<"primary", "fallback">>]
                   \* FileNotFoundError or any other exception of the fallback
                   \* run is raised inside the handler of the first failure.
                   ELSE [status |-> "raise", path |-> None,
                         files |-> files \cup left("nonzero"),
                         route |-> "blob", runs |-> <<"primary", "fallback">>]
         ELSE [status |-> "none", path |-> None, files |-> files,
               route |-> "blob", runs |-> <<"primary">>]

SaveVideoFrames(rec, files, enc) ==
    LET left(run) == IF run = "nonzero" /\ enc.partial THEN {final_video_path} ELSE {}
    IN
    IF rec.frames = <<>>
    THEN [status |-> "none", path |-> None, files |-> files,
          route |-> "empty", runs |-> <<>>]
    ELSE IF enc.writer # "ok"
         THEN [status |-> "none", path |-> None, files |-> files,
               route |-> "frames", runs |-> <<>>]
         ELSE IF rec.audio_chunks = <<>>
              THEN [status |-> "path", path |-> temp_video_path,
                    files |-> files \cup {temp_video_path},
                    route |-> "frames", runs |-> <<>>]
              ELSE LET written == files \cup {temp_video_path, temp_audio_path}
                   IN  IF enc.mux = "ok"
                       THEN [status |-> "path", path |-> final_video_path,
                             files |-> written \cup {final_video_path},
                             route |-> "frames", runs |-> <<"mux">>]
                       ELSE IF enc.mux \in {"nonzero", "missing"}
                            THEN [status |-> "path", path |-> temp_video_path,
                                  files |-> written \cup left(enc.mux),
                                  route |-> "frames", runs |-> <<"mux">>]
                            ELSE [status |-> "none", path |-> None,
                                  files |-> written,
                                  route |-> "frames", runs |-> <<"mux">>]

\* A blob path that, having failed, goes on to the buffered frames.
SaveVideoTryingFrames(rec, files, enc) ==
    IF rec.has_combined_blob
    THEN LET blob == SaveVideoBlob(rec, files, enc)
         IN  IF blob.status = "path" \/ rec.frames = <<>>
             THEN blob
             ELSE SaveVideoFrames(rec, blob.files, enc)
    ELSE SaveVideoFrames(rec, files, enc)

SaveVideo(rec, files, enc) ==
    IF rec.has_combined_blob
    THEN SaveVideoBlob(rec, files, enc)
    ELSE SaveVideoFrames(rec, files, enc)

\* cleanup: the files are removed in this order; fail_at is the position whose
\* os.remove raises (0: none does), which ends the method with the rest in place.
CleanupOrder ==
    <<temp_video_path, temp_audio_path, temp_combined_video_path, final_video_path>>

\* An os.remove of cleanup raises: the method prints the error and returns.
CleanupFails(files, fail_at) ==
    fail_at # 0 /\ CleanupOrder[fail_at] \in files

CleanupCall(files, fail_at) ==
    [fn |-> "cleanup", failed |-> CleanupFails(files, fail_at)]

\* cleanup without its os.path.exists tests: the os.remove of a missing file
\* raises, which ends the method like any other error.
CleanupWithoutExistsTest(files, fail_at) ==
    LET stops == {i \in 1..4 : CleanupOrder[i] \notin files \/ i = fail_at}
        last  == IF stops = {} THEN 4
                 ELSE (CHOOSE i \in stops : \A j \in stops : i <= j) - 1
    IN  files \ {CleanupOrder[i] : i \in 1..last}

Cleanup(files, fail_at) ==
    IF fail_at = 0 \/ CleanupOrder[fail_at] \notin files
    THEN files \ {CleanupOrder[i] : i \in 1..4}
    ELSE files \ {CleanupOrder[i] : i \in 1..(fail_at - 1)}

\* upload_to_supabase: the public URL, as the storage path it names, or None.
StoreOutcomes == {"unconfigured", "ok", "empty", "raise"}

UploadToSupabase(video_path, files, session_id, user_id, store) ==
    IF store = "unconfigured"
    THEN None
    ELSE IF video_path.ext # ".mp4"
         THEN None
         ELSE IF video_path \notin files \/ store # "ok"
              THEN None
              ELSE [storage_path |-> <<user_id, session_id, ".mp4">>]

\* save_feedback_segments_to_supabase, the segment-persistence collaborator.
PersistOutcomes == {"ok", "fail", "raise"}

SaveFeedbackSegments(session_id, user_id, segments, persist) ==
    IF persist = "ok"
    THEN [raised |-> FALSE, success |-> TRUE, count |-> Len(segments)]
    ELSE IF persist = "fail"
         THEN [raised |-> FALSE, success |-> FALSE, error |-> "persist failed"]
         ELSE [raised |-> TRUE]

(***************************************************************************)
(* State.                                                                  *)
(*   clock                   the event loop's time                         *)
(*   active_recorders        keys of the module-level recorder registry    *)
(*   active_feedback_agents  keys of the module-level agent registry       *)
(*   session[s]              the locals of connection s's endpoint call    *)
(*   disk[s]                 the files in session s's directory            *)
(*   trace[s]                what handling s's latest message did: the     *)
(*                           message type, the messages sent, the          *)
(*                           collaborator calls, and the fault that ended  *)
(*                           the endpoint abnormally, if one did           *)
(*   probe                   the result of a direct evaluation of the      *)
(*                           segment-bounds computation                    *)
(*   inflight                per session, the frame message whose inference *)
(*                           call has been made and has not returned, the   *)
(*                           stop message whose save_video call has not     *)
(*                           returned, and whether the client's stop        *)
(*                           message has reached the socket                 *)
(***************************************************************************)
VARIABLES clock, active_recorders, active_feedback_agents, session, disk, trace, probe,
          inflight

vars == <<clock, active_recorders, active_feedback_agents, session, disk, trace, probe,
          inflight>>

NO_AUDIO == "<None>"

\* The locals, were the feedback timer started at zero and not at the loop time.
NewSessionTimerAtZero(now) ==
    [phase |-> "open", user_id |-> ANONYMOUS, video_recorder |-> None,
     feedback_agent |-> None, frame_buffer |-> <<>>, audio_buffer |-> NO_AUDIO,
     session_start_time |-> now, last_feedback_time |-> 0,
     feedback_segments |-> <<>>, data_chunk_count |-> 0]

\* The locals of websocket_video_endpoint at the top of its receive loop.
NewSession(now) ==
    [phase |-> "open", user_id |-> ANONYMOUS, video_recorder |-> None,
     feedback_agent |-> None, frame_buffer |-> <<>>, audio_buffer |-> NO_AUDIO,
     session_start_time |-> now, last_feedback_time |-> now,
     feedback_segments |-> <<>>, data_chunk_count |-> 0]

NoTrace == [msg |-> "", sent |-> <<>>, calls |-> <<>>, fault |-> "none", fault_at |-> 0]

Handled(type) == [NoTrace EXCEPT !.msg = type]

\* The endpoint is in receive_text and the socket holds no stop message.
NoInflight == [inference |-> None, encoding |-> None, stop_arrived |-> FALSE]

Init ==
    /\ clock = 0
    /\ active_recorders = {}
    /\ active_feedback_agents = {}
    /\ session = [s \in Sessions |-> [NewSession(0) EXCEPT !.phase = "idle"]]
    /\ disk = [s \in Sessions |-> {}]
    /\ trace = [s \in Sessions |-> NoTrace]
    /\ probe = None
    /\ inflight = [s \in Sessions |-> NoInflight]

(***************************************************************************)
(* The outcome of a handler: the values it leaves in the session's locals, *)
(* the registries, the session directory and the trace.                    *)
(***************************************************************************)
Outcome(sess, recorders, agents, files, tr) ==
    [sess |-> sess, recorders |-> recorders, agents |-> agents, files |-> files,
     tr |-> tr]

\* The handlers, were user_id a module-level name instead of a local of the
\* endpoint.
CommitSharedOwner(s, o, now) ==
    /\ clock' = now
    /\ session' = [t \in Sessions |->
                     IF t = s
                     THEN o.sess
                     ELSE [session[t] EXCEPT !.user_id = o.sess.user_id]]
    /\ active_recorders' = o.recorders
    /\ active_feedback_agents' = o.agents
    /\ disk' = [disk EXCEPT ![s] = o.files]
    /\ trace' = [trace EXCEPT ![s] = o.tr]

Commit(s, o, now) ==
    /\ clock' = now
    /\ session' = [session EXCEPT ![s] = o.sess]
    /\ active_recorders' = o.recorders
    /\ active_feedback_agents' = o.agents
    /\ disk' = [disk EXCEPT ![s] = o.files]
    /\ trace' = [trace EXCEPT ![s] = o.tr]

\* A handler that runs from receive_text back to receive_text in one step.
Apply(s, o, now) ==
    /\ Commit(s, o, now)
    /\ UNCHANGED <<probe, inflight>>

\* The except clauses, were they to flush the segment log as the stop handler does.
AbnormalWithFlush(s, o, fault, fail_at) ==
    LET registered == s \in o.recorders
    IN  Outcome([o.sess EXCEPT !.phase = "aborted", !.feedback_segments = <<>>],
                o.recorders \ {s},
                o.agents \ {s},
                IF registered THEN Cleanup(o.files, fail_at) ELSE o.files,
                [o.tr EXCEPT !.fault = fault,
                             !.fault_at = Len(o.tr.calls),
                             !.calls = Append(IF registered
                                              THEN Append(@, CleanupCall(o.files, fail_at))
                                              ELSE @,
                                              [fn |-> "save_feedback_segments_to_supabase",
                                               session_id |-> s,
                                               user_id |-> o.sess.user_id,
                                               segments |-> o.sess.feedback_segments,
                                               outcome |-> "ok"])])

\* The except clauses of the endpoint: the recorder still registered is cleaned
\* up and unregistered, the agent is unregistered, the endpoint returns.
Abnormal(s, o, fault, fail_at) ==
    LET registered == s \in o.recorders
    IN  Outcome([o.sess EXCEPT !.phase = "aborted"],
                o.recorders \ {s},
                o.agents \ {s},
                IF registered THEN Cleanup(o.files, fail_at) ELSE o.files,
                [o.tr EXCEPT !.fault = fault,
                             !.fault_at = Len(o.tr.calls),
                             !.calls = IF registered
                                       THEN Append(@, CleanupCall(o.files, fail_at))
                                       ELSE @])

\* await websocket.send_json(msg) as the last step of a handler.
SendLast(s, o, msg, send_ok, fail_at) ==
    IF send_ok
    THEN [o EXCEPT !.tr.sent = Append(@, msg)]
    ELSE Abnormal(s, o, "send", fail_at)

Here(s) == Outcome(session[s], active_recorders, active_feedback_agents, disk[s],
                   trace[s])

\* "if video_recorder is None: video_recorder = VideoRecorder(...)".
WithRecorder(s, o) ==
    IF o.sess.video_recorder = None
    THEN [o EXCEPT !.sess.video_recorder = NewRecorder(o.sess.user_id),
                   !.recorders = @ \cup {s}]
    ELSE o

(***************************************************************************)
(* The endpoint, one action per message type.                              *)
(***************************************************************************)
\* websocket.accept() and the initialisation of the locals.
Connect(s, dt) ==
    /\ session[s].phase = "idle"
    /\ clock + dt <= MaxClock
    /\ Apply(s, [Here(s) EXCEPT !.sess = NewSession(clock + dt)], clock + dt)

Auth(s, uid, client, send_ok, fail_at) ==
    /\ session[s].phase = "open"
    /\ LET o == [Here(s) EXCEPT !.sess.user_id = uid,
                                !.sess.feedback_agent = [client |-> client],
                                !.agents = @ \cup {s},
                                !.tr = Handled("auth")]
       IN  Apply(s, SendLast(s, o, [type |-> "auth_success", session_id |-> s],
                             send_ok, fail_at), clock)

VideoChunk(s, send_ok, fail_at) ==
    /\ session[s].phase = "open"
    /\ session[s].data_chunk_count < MaxChunks
    /\ LET o == [WithRecorder(s, Here(s)) EXCEPT !.sess.data_chunk_count = @ + 1,
                                                 !.tr = Handled("video_chunk")]
       IN  Apply(s,
                 IF o.sess.data_chunk_count % 30 = 0
                 THEN SendLast(s, o, [type |-> "status",
                                      segments_processed |-> o.sess.data_chunk_count,
                                      message |-> "Recording..."], send_ok, fail_at)
                 ELSE o,
                 clock)

VideoComplete(s, complete_data, write_ok, send_ok, fail_at) ==
    /\ session[s].phase = "open"
    /\ LET o0 == [WithRecorder(s, Here(s)) EXCEPT !.tr = Handled("video_complete")]
           blob == SetFinalWebmBlob(o0.sess.video_recorder, o0.files, complete_data,
                                    write_ok)
       IN  Apply(s,
                 IF complete_data # ""
                 THEN SendLast(s,
                               [o0 EXCEPT !.sess.video_recorder = blob.rec,
                                          !.files = blob.files,
                                          !.tr.calls = Append(@, [fn |-> "set_final_webm_blob"])],
                               [type |-> "status",
                                message |-> "Final video received. Preparing upload"],
                               send_ok, fail_at)
                 ELSE SendLast(s, o0, [type |-> "upload_error",
                                       message |-> "No video data provided"],
                               send_ok, fail_at),
                 clock)

\* The audio handler, were it to drop a message that arrives before the agent
\* of the session exists.
AudioMsgAfterAuthOnly(s, audio_data) ==
    /\ session[s].phase = "open"
    /\ LET o0 == WithRecorder(s, Here(s))
           o  == [o0 EXCEPT !.sess.video_recorder = AddAudioChunk(@, audio_data),
                            !.sess.audio_buffer = audio_data,
                            !.tr = Handled("audio")]
       IN  IF session[s].feedback_agent = None
           THEN Apply(s, [Here(s) EXCEPT !.tr = Handled("audio")], clock)
           ELSE /\ Len(o.sess.video_recorder.audio_chunks) <= MaxAudio
                /\ Apply(s, o, clock)

AudioMsg(s, audio_data) ==
    /\ session[s].phase = "open"
    /\ LET o0 == WithRecorder(s, Here(s))
           o  == [o0 EXCEPT !.sess.video_recorder = AddAudioChunk(@, audio_data),
                            !.sess.audio_buffer = audio_data,
                            !.tr = Handled("audio")]
       IN  /\ Len(o.sess.video_recorder.audio_chunks) <= MaxAudio
           /\ Apply(s, o, clock)

\* The ping handler, were it to count the message as a data chunk.
PingCounted(s, send_ok, fail_at) ==
    /\ session[s].phase = "open"
    /\ session[s].data_chunk_count < MaxChunks
    /\ Apply(s, SendLast(s, [Here(s) EXCEPT !.sess.data_chunk_count = @ + 1,
                                            !.tr = Handled("ping")],
                         [type |-> "pong"], send_ok, fail_at), clock)

Ping(s, send_ok, fail_at) ==
    /\ session[s].phase = "open"
    /\ Apply(s, SendLast(s, [Here(s) EXCEPT !.tr = Handled("ping")],
                         [type |-> "pong"], send_ok, fail_at), clock)

\* The dispatch chain, had it a final else that treats the message as a fault.
UnknownRejected(s) ==
    /\ session[s].phase = "open"
    /\ Apply(s, Abnormal(s, [Here(s) EXCEPT !.tr = Handled("unknown")], "fault", 0), clock)

\* A message whose type is none of those the loop tests for.
Unknown(s) ==
    /\ session[s].phase = "open"
    /\ Apply(s, [Here(s) EXCEPT !.tr = Handled("unknown")], clock)

\* The endpoint, had it no except clause for WebSocketDisconnect.
DisconnectUnhandled(s, fail_at) ==
    /\ session[s].phase = "open"
    /\ Apply(s, [Here(s) EXCEPT !.sess.phase = "aborted",
                                !.tr = [Handled("") EXCEPT !.fault = "disconnect"]],
             clock)

\* receive_text raises WebSocketDisconnect.
Disconnect(s, fail_at) ==
    /\ session[s].phase = "open"
    /\ Apply(s, Abnormal(s, [Here(s) EXCEPT !.tr = Handled("")], "disconnect", fail_at),
             clock)

\* Any other exception raised before a handler changes anything: a text that is
\* not JSON, a message that is not an object, a session directory that cannot be
\* made.
Fault(s, fail_at) ==
    /\ session[s].phase = "open"
    /\ Apply(s, Abnormal(s, [Here(s) EXCEPT !.tr = Handled("")], "fault", fail_at),
             clock)

\* Line 302, were the entry put in front of the log.
PrependSegment(feedback_segments, segment_entry) == <<segment_entry>> \o feedback_segments

\* Line 302: feedback_segments.append(segment_entry).
AppendSegment(feedback_segments, segment_entry) == Append(feedback_segments, segment_entry)

\* Line 308, were the index counted from one.
SegmentIndexFromOne(feedback_segments) == Len(feedback_segments)

\* Line 308: "segment_index": len(feedback_segments) - 1.
SegmentIndex(feedback_segments) == Len(feedback_segments) - 1

\* Lines 326-328, were they inside the try block after the notification.
ResetWindowIfNotified(sess, current_time, send_ok) ==
    IF send_ok
    THEN [sess EXCEPT !.frame_buffer = <<>>,
                      !.audio_buffer = NO_AUDIO,
                      !.last_feedback_time = current_time]
    ELSE sess

\* Lines 326-328, after the try block: frame_buffer.clear(), audio_buffer = None,
\* last_feedback_time = current_time.
ResetWindow(sess, current_time, send_ok) ==
    [sess EXCEPT !.frame_buffer = <<>>,
                 !.audio_buffer = NO_AUDIO,
                 !.last_feedback_time = current_time]

\* Lines 266-328 of the frame handler: the inference call on the feedback
\* window, the segment entry, the notification, and the reset of the window.
Feedback(s, o, current_time, backend, send_ok) ==
    LET sess          == o.sess
        frames        == LastN(sess.frame_buffer, WINDOW_FRAMES)
        ai_feedback   == AnalyzeSegment(sess.feedback_agent, frames, sess.audio_buffer,
                                        backend)
        bounds        == SegmentBounds(sess.session_start_time, sess.last_feedback_time,
                                       current_time)
        feedback_text == Strip(ai_feedback)
        is_actionable == IsActionable(feedback_text)
        segment_entry == [feedback_text |-> feedback_text,
                          start_seconds |-> Round2(bounds.start),
                          end_seconds   |-> Round2(bounds.end)]
        segments      == IF is_actionable
                         THEN AppendSegment(sess.feedback_segments, segment_entry)
                         ELSE sess.feedback_segments
        payload       == IF is_actionable
                         THEN [type |-> "ai_feedback", message |-> ai_feedback,
                               timestamp |-> Round2(bounds.end), session_id |-> s,
                               is_actionable |-> is_actionable,
                               start_seconds |-> segment_entry.start_seconds,
                               end_seconds |-> segment_entry.end_seconds,
                               segment_index |-> SegmentIndex(segments)]
                         ELSE [type |-> "ai_feedback", message |-> ai_feedback,
                               timestamp |-> Round2(bounds.end), session_id |-> s,
                               is_actionable |-> is_actionable]
    IN  [o EXCEPT !.sess = ResetWindow([@ EXCEPT !.feedback_segments = segments],
                                       current_time, send_ok),
                  !.tr.calls = Append(@, [fn |-> "analyze_segment", frames |-> frames,
                                          audio_data |-> sess.audio_buffer,
                                          returned |-> ai_feedback]),
                  !.tr.sent = IF send_ok THEN Append(@, payload) ELSE @]

\* Lines 243-262: the recorder and the agent are made if missing, the frame is
\* stored, buffered and counted.
FrameStored(s, kind, client) ==
    LET o0 == WithRecorder(s, Here(s))
        o1 == IF o0.sess.feedback_agent = None
              THEN [o0 EXCEPT !.sess.feedback_agent = [client |-> client],
                              !.agents = @ \cup {s}]
              ELSE o0
        frame_data == [id |-> o1.sess.data_chunk_count + 1, kind |-> kind]
    IN  [o1 EXCEPT !.sess.video_recorder = AddFrame(@, frame_data),
                   !.sess.frame_buffer = Append(@, frame_data),
                   !.sess.data_chunk_count = @ + 1,
                   !.tr = Handled("frame")]

\* Line 266: the handler is about to call analyze_segment.
FrameTriggers(s, kind, client, current_time) ==
    LET o2 == FrameStored(s, kind, client)
    IN  /\ ShouldTrigger(current_time, o2.sess.last_feedback_time)
        /\ o2.sess.frame_buffer # <<>>

\* Lines 330-337: the status notification every sixtieth chunk.
FrameStatus(s, o3, send_ok, fail_at) ==
    IF o3.sess.data_chunk_count % 60 = 0
    THEN SendLast(s, o3, [type |-> "status",
                          segments_processed |-> o3.sess.data_chunk_count,
                          message |-> "Processing..."], send_ok, fail_at)
    ELSE o3

\* The whole frame handler, lines 243-337.
FrameOutcome(s, kind, current_time, client, backend, send_ok, fail_at) ==
    LET o2 == FrameStored(s, kind, client)
    IN  FrameStatus(s,
                    IF FrameTriggers(s, kind, client, current_time)
                    THEN Feedback(s, o2, current_time, backend, send_ok)
                    ELSE o2,
                    send_ok, fail_at)

FrameMsg(s, limit, kind, dt, client, backend, send_ok, fail_at) ==
    /\ session[s].phase = "open"
    /\ session[s].data_chunk_count < limit
    /\ clock + dt <= MaxClock
    /\ Apply(s, FrameOutcome(s, kind, clock + dt, client, backend, send_ok, fail_at),
             clock + dt)

(***************************************************************************)
(* The stop handler.                                                       *)
(***************************************************************************)
\* Lines 416-449: what the flush reports to the caller.
FlushReplyOnSuccessOnly(s, save_result) ==
    IF ~save_result.raised /\ save_result.success
    THEN <<[type |-> "feedback_saved", session_id |-> s,
            segments_saved |-> save_result.count]>>
    ELSE <<>>

FlushReply(s, save_result) ==
    IF ~save_result.raised /\ save_result.success
    THEN <<[type |-> "feedback_saved", session_id |-> s,
            segments_saved |-> save_result.count]>>
    ELSE <<[type |-> "feedback_save_error", session_id |-> s]>>

\* Line 451: feedback_segments.clear().
KeepSegments(feedback_segments) == feedback_segments

ClearSegments(feedback_segments) == <<>>

\* The flush, were the handler to go back to the receive loop instead of break.
StopFlushNoBreak(s, o, persist, send_ok, fail_at) ==
    LET save_result == SaveFeedbackSegments(s, o.sess.user_id, o.sess.feedback_segments,
                                            persist)
        o1  == [o EXCEPT !.tr.calls =
                   Append(@, [fn |-> "save_feedback_segments_to_supabase",
                              session_id |-> s, user_id |-> o.sess.user_id,
                              segments |-> o.sess.feedback_segments,
                              outcome |-> persist])]
    IN  IF send_ok
        THEN [o1 EXCEPT !.tr.sent = @ \o FlushReply(s, save_result),
                        !.sess.feedback_segments = ClearSegments(@),
                        !.agents = @ \ {s}]
        ELSE Abnormal(s, o1, "send", fail_at)

\* Lines 408-457: the flush of the segment log, the removal of the agent, break.
StopFlush(s, o, persist, send_ok, fail_at) ==
    LET save_result == SaveFeedbackSegments(s, o.sess.user_id, o.sess.feedback_segments,
                                            persist)
        o1  == [o EXCEPT !.tr.calls =
                   Append(@, [fn |-> "save_feedback_segments_to_supabase",
                              session_id |-> s, user_id |-> o.sess.user_id,
                              segments |-> o.sess.feedback_segments,
                              outcome |-> persist])]
    IN  IF send_ok
        THEN [o1 EXCEPT !.tr.sent = @ \o FlushReply(s, save_result),
                        !.sess.feedback_segments = ClearSegments(@),
                        !.agents = @ \ {s},
                        !.sess.phase = "closed"]
        ELSE Abnormal(s, o1, "send", fail_at)

\* Lines 358-404: save_video, the upload, the cleanup, the removal of the
\* recorder.  n_ok is the number of messages the transport still carries.
StopRecorder(s, o, enc, store, n_ok, fail_at) ==
    LET o1 == [o EXCEPT !.tr.sent = Append(@, [type |-> "status",
                                               message |-> "Processing recording"])]
        sv == SaveVideo(o.sess.video_recorder, o.files, enc)
        o2 == [o1 EXCEPT !.files = sv.files,
                         !.tr.calls = Append(@, [fn |-> "save_video", route |-> sv.route,
                                                 runs |-> sv.runs, status |-> sv.status])]
        public_url == UploadToSupabase(sv.path, sv.files, s, o.sess.user_id, store)
        o3 == [o2 EXCEPT !.tr.calls = Append(@, [fn |-> "upload_to_supabase",
                                                 video_path |-> sv.path,
                                                 user_id |-> o.sess.user_id,
                                                 public_url |-> public_url])]
    IN  IF n_ok < 1
        THEN [o |-> Abnormal(s, o, "send", fail_at), live |-> FALSE]
        ELSE IF sv.status = "raise"
        THEN [o |-> Abnormal(s, o2, "encoder", fail_at), live |-> FALSE]
        ELSE IF sv.status = "path"
        THEN IF n_ok < 2
             THEN [o |-> Abnormal(s, o3, "send", fail_at), live |-> FALSE]
             ELSE [o |-> [o3 EXCEPT
                            !.tr.sent = Append(@,
                                IF public_url # None
                                THEN [type |-> "upload_complete", url |-> public_url,
                                      session_id |-> s]
                                ELSE [type |-> "upload_error", session_id |-> s,
                                      message |-> "Failed to upload video to Supabase"]),
                            !.files = Cleanup(@, fail_at),
                            !.tr.calls = Append(@, CleanupCall(o3.files, fail_at)),
                            !.recorders = @ \ {s}],
                   live |-> TRUE]
        ELSE IF n_ok < 2
             THEN [o |-> Abnormal(s, o2, "send", fail_at), live |-> FALSE]
             ELSE [o |-> [o2 EXCEPT
                            !.tr.sent = Append(@, [type |-> "upload_error",
                                                   message |-> "Failed to save video"]),
                            !.recorders = @ \ {s}],
                   live |-> TRUE]

\* The whole stop handler, lines 354-457.
StopOutcome(s, enc, store, persist, n_ok, fail_at) ==
    LET o0        == [Here(s) EXCEPT !.tr = Handled("stop")]
        recording == o0.sess.video_recorder # None
        a         == IF recording
                     THEN StopRecorder(s, o0, enc, store, n_ok, fail_at)
                     ELSE [o |-> o0, live |-> TRUE]
        sent      == IF recording THEN 2 ELSE 0
    IN  IF a.live THEN StopFlush(s, a.o, persist, n_ok > sent, fail_at) ELSE a.o

Stop(s, enc, store, persist, n_ok, fail_at) ==
    /\ session[s].phase = "open"
    /\ Apply(s, StopOutcome(s, enc, store, persist, n_ok, fail_at), clock)

(***************************************************************************)
(* The inputs that reach the code: the outcome of a step that is not run   *)
(* is not enumerated.                                                      *)
(***************************************************************************)
NoEncoding ==
    [primary |-> "ok", fallback |-> "ok", writer |-> "ok", mux |-> "ok",
     partial |-> FALSE]

EncoderCases(rec) ==
    IF rec = None
    THEN {NoEncoding}
    ELSE IF rec.has_combined_blob
    THEN {e \in EncoderOutcomes :
            /\ e.writer = "ok" /\ e.mux = "ok"
            /\ (e.primary # "nonzero" => e.fallback = "ok" /\ ~e.partial)
            /\ (e.fallback # "nonzero" => ~e.partial)}
    ELSE IF rec.frames = <<>>
    THEN {NoEncoding}
    ELSE {e \in EncoderOutcomes :
            /\ e.primary = "ok" /\ e.fallback = "ok"
            /\ (e.writer # "ok" \/ rec.audio_chunks = <<>> => e.mux = "ok")
            /\ (e.mux # "nonzero" => ~e.partial)}

CleanupFaults == 0..4

FaultsIf(failing, faults) == IF failing THEN faults ELSE {0}

Owners == UserIds \cup {ANONYMOUS}

\* The inputs of the frame handler that reach its code: the agent's configuration
\* when this frame constructs the agent, the backend's answer and the transport
\* when the feedback interval has elapsed.
FrameInputs(s, dt, P) ==
    LET sess    == session[s]
        elapsed == ShouldTrigger(clock + dt, sess.last_feedback_time)
        sending == elapsed \/ (sess.data_chunk_count + 1) % 60 = 0
    IN  {[client |-> c, backend |-> b, send_ok |-> k, fail_at |-> f] :
            c \in IF sess.feedback_agent = None THEN P.clients ELSE {TRUE},
            b \in IF elapsed THEN P.backends ELSE {[kind |-> "text", text |-> REPLY_OK]},
            k \in IF sending THEN P.sends ELSE {TRUE},
            f \in {0}}

\* The inputs of the stop handler that reach its code, for the route save_video
\* takes: the store is consulted only when a path is returned, the persistence
\* collaborator only when the flush is reached, cleanup only where it runs.
StopInputs(s, P) ==
    LET rec == session[s].video_recorder
        In(enc, store, persist, n_ok, fail_at) ==
            [enc |-> enc, store |-> store, persist |-> persist, n_ok |-> n_ok,
             fail_at |-> fail_at]
        Flushed(enc, store, fail_at) ==
            {In(enc, store, p, n, fail_at) : p \in P.persists, n \in {2, 3} \cap P.carried}
    IN  IF rec = None
        THEN {In(NoEncoding, "ok", p, n, 0) : p \in P.persists, n \in {0, 3} \cap P.carried}
        ELSE {In(NoEncoding, "ok", "ok", n, f) : n \in {0} \cap P.carried, f \in P.faults}
             \cup UNION {
                LET sv == SaveVideo(rec, disk[s], enc)
                IN  IF sv.status = "raise"
                    THEN {In(enc, "ok", "ok", 3, f) : f \in P.faults}
                    ELSE IF sv.status = "path"
                    THEN UNION {{In(enc, st, "ok", n, f) : n \in {1} \cap P.carried}
                                \cup Flushed(enc, st, f) :
                                    st \in P.stores, f \in P.faults}
                    ELSE {In(enc, "ok", "ok", n, f) : n \in {1} \cap P.carried,
                                                      f \in P.faults}
                         \cup Flushed(enc, "ok", 0) :
                enc \in EncoderCases(rec) \cap P.encoders}

(***************************************************************************)
(* One connection, under a profile: the sets its inputs are drawn from.    *)
(***************************************************************************)
SessionNext(s, P) ==
    \/ \E dt \in P.connect_steps : Connect(s, dt)
    \/ \E uid \in P.owners, client \in P.clients, send_ok \in P.sends :
         \E fail_at \in FaultsIf(~send_ok, P.faults) :
            Auth(s, uid, client, send_ok, fail_at)
    \/ \E send_ok \in P.sends :
         \E fail_at \in FaultsIf(~send_ok, P.faults) : VideoChunk(s, send_ok, fail_at)
    \/ \E complete_data \in P.blobs, write_ok \in P.writes, send_ok \in P.sends :
         \E fail_at \in FaultsIf(~send_ok, P.faults) :
            VideoComplete(s, complete_data, write_ok, send_ok, fail_at)
    \/ \E kind \in P.frame_kinds, dt \in P.steps :
         \E i \in FrameInputs(s, dt, P) :
            FrameMsg(s, P.limit, kind, dt, i.client, i.backend, i.send_ok, i.fail_at)
    \/ \E audio_data \in P.audios : AudioMsg(s, audio_data)
    \/ \E i \in StopInputs(s, P) :
         Stop(s, i.enc, i.store, i.persist, i.n_ok, i.fail_at)
    \/ \E send_ok \in P.sends :
         \E fail_at \in FaultsIf(~send_ok, P.faults) : Ping(s, send_ok, fail_at)
    \/ Unknown(s)
    \/ \E fail_at \in P.faults : Disconnect(s, fail_at)
    \/ \E fail_at \in P.faults : Fault(s, fail_at)

\* The default profile: every outcome of the stop handler, short media streams.
StopProfile ==
    [connect_steps |-> {700}, steps |-> {0, 1500}, owners |-> {"u1"}, clients |-> {TRUE},
     sends |-> BOOLEAN, faults |-> {0, 3}, blobs |-> {"webm", ""}, writes |-> {TRUE},
     frame_kinds |-> {"img"}, backends |-> {[kind |-> "text", text |-> REPLY_SLOW]},
     limit |-> MaxChunks, audios |-> {"a1"}, encoders |-> EncoderOutcomes,
     stores |-> StoreOutcomes, persists |-> PersistOutcomes, carried |-> 0..3]

Next == SessionNext("s1", StopProfile)

Spec == Init /\ [][Next]_vars

\* The feedback profile: the frame handler under every clock step, judgment and
\* agent configuration, with the audio and stop handlers around it.
FeedbackProfile ==
    [connect_steps |-> {700}, steps |-> TickSteps, owners |-> {"u1"},
     clients |-> BOOLEAN, sends |-> BOOLEAN, faults |-> {0}, blobs |-> {"webm"},
     writes |-> {TRUE}, frame_kinds |-> {"img", "tiny"}, backends |-> BackendOutcomes,
     limit |-> MaxFrames, audios |-> {"a1"}, encoders |-> {NoEncoding},
     stores |-> {"ok"}, persists |-> {"ok"}, carried |-> {3}]

FeedbackNext(s, P) ==
    \/ \E dt \in P.connect_steps : Connect(s, dt)
    \/ \E uid \in P.owners, client \in P.clients : Auth(s, uid, client, TRUE, 0)
    \/ \E kind \in P.frame_kinds, dt \in P.steps :
         \E i \in FrameInputs(s, dt, P) :
            FrameMsg(s, P.limit, kind, dt, i.client, i.backend, i.send_ok, i.fail_at)
    \/ \E audio_data \in P.audios : AudioMsg(s, audio_data)
    \/ \E i \in StopInputs(s, P) :
         Stop(s, i.enc, i.store, i.persist, i.n_ok, i.fail_at)
    \/ \E fail_at \in P.faults : Disconnect(s, fail_at)

NextFeedback == FeedbackNext("s1", FeedbackProfile)

SpecFeedback == Init /\ [][NextFeedback]_vars

(***************************************************************************)
(* Scenario A: auth, then frames one second apart and nothing else.        *)
(***************************************************************************)
OneSecond == FEEDBACK_INTERVAL \div 5

ScenarioProfile ==
    [connect_steps |-> {700}, steps |-> {OneSecond}, owners |-> {"u1"},
     clients |-> BOOLEAN, sends |-> BOOLEAN, faults |-> {0},
     frame_kinds |-> {"img", "junk"},
     backends |-> {[kind |-> "text", text |-> REPLY_OK],
                   [kind |-> "text", text |-> REPLY_SLOW],
                   [kind |-> "raise", text |-> FAULT_TEXT]},
     limit |-> ScenarioFrames]

ScenarioNext(s, P) ==
    \/ \E dt \in P.connect_steps : Connect(s, dt)
    \/ /\ trace[s].msg = ""
       /\ \E uid \in P.owners, client \in P.clients : Auth(s, uid, client, TRUE, 0)
    \/ /\ trace[s].msg \in {"auth", "frame"}
       /\ \E kind \in P.frame_kinds, dt \in P.steps :
            \E i \in FrameInputs(s, dt, P) :
               FrameMsg(s, P.limit, kind, dt, i.client, i.backend, i.send_ok, i.fail_at)

NextScenarioA == ScenarioNext("s1", ScenarioProfile)

SpecScenarioA == Init /\ [][NextScenarioA]_vars

(***************************************************************************)
(* The segment bounds under clock anomalies: a session whose start time,   *)
(* last trigger time and clock stand in any order, the bounds evaluated    *)
(* on them directly, and the frame handler run from there.                 *)
(***************************************************************************)
AnomalyTimes == {0, 700, 1500, 3000}

InitBounds ==
    /\ clock \in AnomalyTimes
    /\ active_recorders = {}
    /\ active_feedback_agents = {}
    /\ \E t0 \in AnomalyTimes, t1 \in AnomalyTimes :
         session = [s \in Sessions |->
                      IF s = "s1"
                      THEN [NewSession(t0) EXCEPT !.last_feedback_time = t1]
                      ELSE [NewSession(0) EXCEPT !.phase = "idle"]]
    /\ disk = [s \in Sessions |-> {}]
    /\ trace = [s \in Sessions |-> NoTrace]
    /\ probe = None
    /\ inflight = [s \in Sessions |-> NoInflight]

ProbeBounds(s) ==
    /\ session[s].phase = "open"
    /\ probe' = [session_start_time |-> session[s].session_start_time,
                 last_feedback_time |-> session[s].last_feedback_time,
                 current_time       |-> clock,
                 bounds |-> SegmentBounds(session[s].session_start_time,
                                          session[s].last_feedback_time, clock)]
    /\ UNCHANGED <<clock, active_recorders, active_feedback_agents, session, disk, trace,
                   inflight>>

BoundsProfile ==
    [steps |-> {0, 1500}, clients |-> {TRUE}, sends |-> {TRUE},
     frame_kinds |-> {"img"},
     backends |-> {[kind |-> "text", text |-> REPLY_SLOW]},
     limit |-> MaxFrames]

BoundsNext(s, P) ==
    \/ ProbeBounds(s)
    \/ \E kind \in P.frame_kinds, dt \in P.steps :
         \E i \in FrameInputs(s, dt, P) :
            FrameMsg(s, P.limit, kind, dt, i.client, i.backend, i.send_ok, i.fail_at)

NextBounds == BoundsNext("s1", BoundsProfile)

SpecBounds == InitBounds /\ [][NextBounds]_vars

(***************************************************************************)
(* What a handler's trace shows.                                           *)
(***************************************************************************)
HasCall(tr, fn) == \E i \in DOMAIN tr.calls : tr.calls[i].fn = fn

HasSent(tr, type) == \E i \in DOMAIN tr.sent : tr.sent[i].type = type

CallOf(tr, fn) == tr.calls[CHOOSE i \in DOMAIN tr.calls : tr.calls[i].fn = fn]

\* The step is a frame message handled by session s.
FrameHandled(s) ==
    /\ session[s].phase = "open"
    /\ trace'[s].msg = "frame"
    /\ session'[s].data_chunk_count = session[s].data_chunk_count + 1

\* The step is a stop message handled by session s.
StopHandled(s) ==
    /\ session[s].phase = "open"
    /\ trace'[s].msg = "stop"

(***************************************************************************)
(* C1.  On every frame message the session calls analyze_segment if and    *)
(* only if the time of the frame minus last_feedback_time is at least      *)
(* FEEDBACK_INTERVAL, the boundary included, whatever the number of frames *)
(* buffered since the last trigger.                                        *)
(***************************************************************************)
C1_TriggerIffIntervalElapsed ==
    [][\A s \in Sessions :
         FrameHandled(s) =>
            (HasCall(trace'[s], "analyze_segment")
               <=> clock' - session[s].last_feedback_time >= FEEDBACK_INTERVAL)]_vars

\* A frame that arrived exactly FEEDBACK_INTERVAL after the last trigger and
\* fired the call.
C1_Witness ==
    \E s \in Sessions :
       /\ trace[s].msg = "frame"
       /\ HasCall(trace[s], "analyze_segment")
       /\ session[s].last_feedback_time = clock
       /\ \E i \in DOMAIN trace[s].sent :
            /\ trace[s].sent[i].type = "ai_feedback"
            /\ trace[s].sent[i].is_actionable
            /\ trace[s].sent[i].end_seconds - trace[s].sent[i].start_seconds
                 = Round2(FEEDBACK_INTERVAL)

(***************************************************************************)
(* C2.  The segment bounds computed at a trigger satisfy 0 <= start <= end *)
(* for every order of session_start_time, last_feedback_time and the       *)
(* current time, and every entry of the segment log has                    *)
(* 0 <= start_seconds <= end_seconds.                                      *)
(***************************************************************************)
C2_SegmentBoundsOrdered ==
    /\ probe # None =>
         /\ 0 <= probe.bounds.start
         /\ probe.bounds.start <= probe.bounds.end
    /\ \A s \in Sessions :
         \A i \in DOMAIN session[s].feedback_segments :
            /\ 0 <= session[s].feedback_segments[i].start_seconds
            /\ session[s].feedback_segments[i].start_seconds
                 <= session[s].feedback_segments[i].end_seconds

\* The bounds were computed with the clock before the last trigger and the last
\* trigger before the session's start, and a trigger then logged a segment.
C2_Witness ==
    /\ probe # None
    /\ probe.current_time < probe.last_feedback_time
    /\ probe.last_feedback_time < probe.session_start_time
    /\ \E s \in Sessions : session[s].feedback_segments # <<>>

(***************************************************************************)
(* C3.  A judgment returned by analyze_segment grows the segment log by    *)
(* exactly one entry, the earlier entries kept, if and only if it is       *)
(* non-empty after trimming, differs from "OK" in more than letter case    *)
(* and does not begin with "error" in any letter case; otherwise the log   *)
(* is unchanged.                                                           *)
(***************************************************************************)
C3_Loggable(judgment) ==
    LET t == Strip(judgment)
    IN  /\ t # <<>>
        /\ Lower(t) # Lower(SENTINEL_OK)
        /\ ~(/\ Len(t) >= Len(ERROR_MARKER)
             /\ Lower(SubSeq(t, 1, Len(ERROR_MARKER))) = ERROR_MARKER)

C3_LogGrowsIffActionable ==
    [][\A s \in Sessions :
         FrameHandled(s) /\ HasCall(trace'[s], "analyze_segment") =>
            LET before == session[s].feedback_segments
                after  == session'[s].feedback_segments
            IN  IF C3_Loggable(CallOf(trace'[s], "analyze_segment").returned)
                THEN /\ Len(after) = Len(before) + 1
                     /\ SubSeq(after, 1, Len(before)) = before
                ELSE after = before]_vars

\* A loggable judgment was returned and is the last entry of the log.
C3_Witness ==
    \E s \in Sessions :
       /\ trace[s].msg = "frame"
       /\ HasCall(trace[s], "analyze_segment")
       /\ C3_Loggable(CallOf(trace[s], "analyze_segment").returned)
       /\ session[s].feedback_segments # <<>>
       /\ session[s].feedback_segments[Len(session[s].feedback_segments)].feedback_text
            = Strip(CallOf(trace[s], "analyze_segment").returned)

(***************************************************************************)
(* C4.  The placeholder analyze_segment returns when the backend is        *)
(* unconfigured is reported with is_actionable false, is never an entry of *)
(* the segment log and is never handed to the persistence collaborator.    *)
(***************************************************************************)
C4_PlaceholderNotActionable ==
    \A s \in Sessions :
       /\ \A i \in DOMAIN trace[s].sent :
            (/\ trace[s].sent[i].type = "ai_feedback"
             /\ trace[s].sent[i].message = PLACEHOLDER)
               => ~trace[s].sent[i].is_actionable
       /\ \A i \in DOMAIN session[s].feedback_segments :
            session[s].feedback_segments[i].feedback_text # PLACEHOLDER
       /\ \A i \in DOMAIN trace[s].calls :
            trace[s].calls[i].fn = "save_feedback_segments_to_supabase"
               => \A k \in DOMAIN trace[s].calls[i].segments :
                     trace[s].calls[i].segments[k].feedback_text # PLACEHOLDER

(***************************************************************************)
(* C5.  As claimed: the flush performed on stop leaves the segment log     *)
(* empty and reports to the caller a count equal to the number of entries  *)
(* the log held before the flush, whether the persistence collaborator     *)
(* succeeds, returns failure or raises.                                    *)
(***************************************************************************)
PERSIST == "save_feedback_segments_to_supabase"

FlushDone(s) ==
    /\ StopHandled(s)
    /\ HasCall(trace'[s], PERSIST)
    /\ trace'[s].fault = "none"

ReportsCount(tr, count) ==
    \E i \in DOMAIN tr.sent :
       /\ tr.sent[i].type = "feedback_saved"
       /\ tr.sent[i].segments_saved = count

C5_FlushAlwaysReportsCount ==
    [][\A s \in Sessions :
         FlushDone(s) =>
            /\ session'[s].feedback_segments = <<>>
            /\ ReportsCount(trace'[s], Len(session[s].feedback_segments))]_vars

(***************************************************************************)
(* C5, amended.  A flush whose reply the transport carries leaves the      *)
(* segment log empty whatever the persistence collaborator does; the count *)
(* of the entries the log held before the flush is reported, as            *)
(* feedback_saved, only when the collaborator succeeds; when it returns    *)
(* failure or raises the caller is sent feedback_save_error, which carries *)
(* no count.                                                               *)
(***************************************************************************)
C5_FlushEmptiesAndReportsOutcome ==
    [][\A s \in Sessions :
         FlushDone(s) =>
            /\ session'[s].feedback_segments = <<>>
            /\ CallOf(trace'[s], PERSIST).segments = session[s].feedback_segments
            /\ IF CallOf(trace'[s], PERSIST).outcome = "ok"
               THEN /\ ReportsCount(trace'[s], Len(session[s].feedback_segments))
                    /\ ~HasSent(trace'[s], "feedback_save_error")
               ELSE /\ HasSent(trace'[s], "feedback_save_error")
                    /\ ~HasSent(trace'[s], "feedback_saved")]_vars

\* A flush of a non-empty log whose persistence failed or raised: the log is
\* empty and the caller was sent the error.
C5_Witness ==
    \E s \in Sessions :
       /\ trace[s].msg = "stop"
       /\ trace[s].fault = "none"
       /\ HasCall(trace[s], PERSIST)
       /\ CallOf(trace[s], PERSIST).segments # <<>>
       /\ CallOf(trace[s], PERSIST).outcome \in {"fail", "raise"}
       /\ session[s].feedback_segments = <<>>
       /\ HasSent(trace[s], "feedback_save_error")

(***************************************************************************)
(* C6.  After a stop message the session attempts the feedback flush       *)
(* whatever became of the artifact, and ends closed, unless the transport  *)
(* itself failed.                                                          *)
(***************************************************************************)
C6_StopAlwaysFlushesAndCloses ==
    \A s \in Sessions :
       trace[s].msg = "stop" /\ trace[s].fault # "send" =>
          /\ HasCall(trace[s], PERSIST)
          /\ session[s].phase = "closed"

(***************************************************************************)
(* C7.  Every stop message is answered, unless the transport itself        *)
(* failed: with upload_complete or upload_error when a recorder exists,    *)
(* and with feedback_saved or feedback_save_error in every case.           *)
(***************************************************************************)
C7_StopAlwaysAcknowledged ==
    \A s \in Sessions :
       trace[s].msg = "stop" /\ trace[s].fault # "send" =>
          /\ session[s].video_recorder # None =>
                \/ HasSent(trace[s], "upload_complete")
                \/ HasSent(trace[s], "upload_error")
          /\ \/ HasSent(trace[s], "feedback_saved")
             \/ HasSent(trace[s], "feedback_save_error")

(***************************************************************************)
(* C8.  Scenario A: auth, then frames one second apart.  The one call of   *)
(* analyze_segment is made by the first frame that arrives                 *)
(* FEEDBACK_INTERVAL or more after the session's start, with at most       *)
(* WINDOW_FRAMES frames; no frame before it and none of the later frames   *)
(* of the scenario makes a call.                                           *)
(***************************************************************************)
C8_ScenarioAOneInference ==
    \A s \in Sessions :
       trace[s].msg = "frame" =>
          LET k     == session[s].data_chunk_count
              first == FEEDBACK_INTERVAL \div OneSecond
              sess  == session[s]
          IN  /\ k < first =>
                   /\ ~HasCall(trace[s], "analyze_segment")
                   /\ sess.last_feedback_time = sess.session_start_time
                   /\ Len(sess.frame_buffer) = k
              /\ k = first =>
                   /\ Cardinality({i \in DOMAIN trace[s].calls :
                                     trace[s].calls[i].fn = "analyze_segment"}) = 1
                   /\ Len(CallOf(trace[s], "analyze_segment").frames) <= WINDOW_FRAMES
                   /\ Len(CallOf(trace[s], "analyze_segment").frames) = first
                   /\ sess.last_feedback_time = clock
              /\ k > first =>
                   /\ ~HasCall(trace[s], "analyze_segment")
                   /\ sess.last_feedback_time
                        = sess.session_start_time + first * OneSecond
                   /\ Len(sess.frame_buffer) = k - first

\* The last frame of the scenario has been handled: one trigger lies behind it.
C8_Witness ==
    \E s \in Sessions :
       /\ trace[s].msg = "frame"
       /\ session[s].data_chunk_count = ScenarioFrames
       /\ session[s].user_id # ANONYMOUS
       /\ session[s].last_feedback_time = session[s].session_start_time + FEEDBACK_INTERVAL
       /\ session[s].frame_buffer # <<>>

(***************************************************************************)
(* C9.  Scenario B: a stop message with no media message before it makes   *)
(* no artifact and no upload attempt and still attempts the feedback       *)
(* flush; where the transport carries the reply, at least one message is   *)
(* sent to the caller and the session ends closed.                         *)
(***************************************************************************)
C9_StopWithoutMedia ==
    \A s \in Sessions :
       trace[s].msg = "stop" /\ session[s].video_recorder = None =>
          /\ ~HasCall(trace[s], "save_video")
          /\ ~HasCall(trace[s], "upload_to_supabase")
          /\ disk[s] = {}
          /\ HasCall(trace[s], PERSIST)
          /\ trace[s].fault = "none" =>
                /\ trace[s].sent # <<>>
                /\ session[s].phase = "closed"

\* A stop without media whose persistence raised: the caller was still answered.
C9_Witness ==
    \E s \in Sessions :
       /\ trace[s].msg = "stop"
       /\ session[s].video_recorder = None
       /\ trace[s].fault = "none"
       /\ CallOf(trace[s], PERSIST).outcome = "raise"
       /\ CallOf(trace[s], PERSIST).segments = <<>>
       /\ HasSent(trace[s], "feedback_save_error")
       /\ session[s].phase = "closed"

(***************************************************************************)
(* C10.  Finalizing a store with neither a consolidated blob nor a         *)
(* buffered frame is not an error: the upload is skipped and the caller is *)
(* not sent the upload_error an encoding failure is reported with.         *)
(***************************************************************************)
C10_EmptyStoreIsNotAnError ==
    \A s \in Sessions :
       (/\ trace[s].msg = "stop"
        /\ HasCall(trace[s], "save_video")
        /\ CallOf(trace[s], "save_video").route = "empty"
        /\ trace[s].fault = "none")
          => /\ ~HasCall(trace[s], "upload_to_supabase")
             /\ ~HasSent(trace[s], "upload_error")

(***************************************************************************)
(* C11.  On abnormal termination (the transport drops, or an exception     *)
(* leaves the receive loop) the session runs recorder cleanup and registry *)
(* removal only: after the fault no save_video, no upload and no flush is  *)
(* called, and the buffered media and the logged segments are left as they *)
(* were, handed to nobody.                                                 *)
(***************************************************************************)
Aborts(s) ==
    /\ session[s].phase = "open"
    /\ session'[s].phase = "aborted"

C11_AbnormalTerminationCleansUpOnly ==
    [][\A s \in Sessions :
         Aborts(s) =>
            LET tr == trace'[s]
            IN  /\ tr.fault # "none"
                /\ s \notin active_recorders'
                /\ s \notin active_feedback_agents'
                /\ \A i \in DOMAIN tr.calls :
                      i > tr.fault_at => tr.calls[i].fn = "cleanup"
                /\ Len(tr.calls) <= tr.fault_at + 1
                /\ session'[s].feedback_segments = session[s].feedback_segments
                /\ tr.fault \in {"disconnect", "fault"} =>
                      /\ tr.fault_at = 0
                      /\ Len(tr.calls) = (IF s \in active_recorders THEN 1 ELSE 0)
                      /\ session'[s] = [session[s] EXCEPT !.phase = "aborted"]]_vars

\* A session with buffered frames and a logged segment was disconnected: cleanup
\* is the one call made.
C11_Witness ==
    \E s \in Sessions :
       /\ session[s].phase = "aborted"
       /\ trace[s].fault = "disconnect"
       /\ trace[s].calls = <<[fn |-> "cleanup", failed |-> FALSE]>>
       /\ session[s].feedback_segments # <<>>
       /\ session[s].video_recorder # None
       /\ session[s].video_recorder.frames # <<>>

(***************************************************************************)
(* C12.  Once a session that created a recorder is terminal (after stop or *)
(* after abnormal termination), cleanup has run exactly once for it and    *)
(* none of video.mp4, audio.webm, combined.webm, final.mp4 remains unless  *)
(* the file system refused a removal, also where save_video returned no    *)
(* path.                                                                   *)
(***************************************************************************)
CountCalls(tr, fn) == Cardinality({i \in DOMAIN tr.calls : tr.calls[i].fn = fn})

Terminal(s) == session[s].phase \in {"closed", "aborted"}

C12_CleanupExactlyOnce ==
    \A s \in Sessions :
       Terminal(s) /\ session[s].video_recorder # None =>
          /\ CountCalls(trace[s], "cleanup") = 1
          /\ ~CallOf(trace[s], "cleanup").failed => disk[s] = {}

(***************************************************************************)
(* C13.  In every session save_video is called at most once and            *)
(* upload_to_supabase at most once: only the stop handler calls them, once *)
(* each, and the session handles no message after it.                      *)
(***************************************************************************)
C13_FinalizeAndUploadAtMostOnce ==
    [][\A s \in Sessions :
         /\ Terminal(s) => UNCHANGED <<session[s], trace[s], disk[s]>>
         /\ trace'[s] # trace[s] =>
               /\ CountCalls(trace'[s], "save_video") <= 1
               /\ CountCalls(trace'[s], "upload_to_supabase") <= 1
               /\ CountCalls(trace'[s], "upload_to_supabase")
                    <= CountCalls(trace'[s], "save_video")
               /\ HasCall(trace'[s], "save_video") =>
                     /\ trace'[s].msg = "stop"
                     /\ session'[s].phase \in {"closed", "aborted"}]_vars

\* A stop that encoded and uploaded, once each, and closed the session.
C13_Witness ==
    \E s \in Sessions :
       /\ session[s].phase = "closed"
       /\ CountCalls(trace[s], "save_video") = 1
       /\ CountCalls(trace[s], "upload_to_supabase") = 1
       /\ CallOf(trace[s], "upload_to_supabase").public_url # None
       /\ HasSent(trace[s], "upload_complete")

(***************************************************************************)
(* cleanup on its own: a session directory holding any of the session's    *)
(* files, and cleanup called on it twice.                                  *)
(***************************************************************************)
SessionFiles == {CleanupOrder[i] : i \in 1..4}

InitCleanup ==
    /\ clock = 0
    /\ active_recorders = {"s1"}
    /\ active_feedback_agents = {}
    /\ session = [s \in Sessions |->
                    IF s = "s1"
                    THEN [NewSession(0) EXCEPT !.video_recorder = NewRecorder(ANONYMOUS)]
                    ELSE [NewSession(0) EXCEPT !.phase = "idle"]]
    /\ disk \in [Sessions -> SUBSET SessionFiles]
    /\ disk["s2"] = {}
    /\ trace = [s \in Sessions |-> NoTrace]
    /\ probe = None
    /\ inflight = [s \in Sessions |-> NoInflight]

ProbeCleanup(s, first, second) ==
    /\ session[s].video_recorder # None
    /\ LET once == Cleanup(disk[s], first)
       IN  probe' = [files  |-> disk[s],
                     first  |-> CleanupFails(disk[s], first),
                     once   |-> once,
                     second |-> CleanupFails(once, second),
                     twice  |-> Cleanup(once, second)]
    /\ UNCHANGED <<clock, active_recorders, active_feedback_agents, session, disk, trace,
                   inflight>>

NextCleanup == \E first \in CleanupFaults, second \in CleanupFaults :
                  ProbeCleanup("s1", first, second)

SpecCleanup == InitCleanup /\ [][NextCleanup]_vars

(***************************************************************************)
(* C14.  cleanup is idempotent: from any state of the session's files,     *)
(* where the file system refuses no removal, a second cleanup leaves what  *)
(* the first left, and that is none of the session's files; in every case  *)
(* a call only removes files and no error leaves it.                       *)
(***************************************************************************)
C14_CleanupIdempotent ==
    probe # None =>
       /\ probe.twice \subseteq probe.once
       /\ probe.once \subseteq probe.files
       /\ ~probe.first =>
             /\ probe.once \cap SessionFiles = {}
             /\ ~probe.second
             /\ probe.twice = probe.once

\* cleanup ran twice on a directory holding final.mp4 only, with no removal refused.
C14_Witness ==
    /\ probe # None
    /\ probe.files = {final_video_path}
    /\ ~probe.first
    /\ ~probe.second
    /\ probe.twice = {}

(***************************************************************************)
(* The frame handler under every kind of payload.                          *)
(***************************************************************************)
FramesProfile ==
    [connect_steps |-> {700}, steps |-> {0, 1500}, clients |-> BOOLEAN, sends |-> {TRUE},
     frame_kinds |-> FrameKinds,
     backends |-> {[kind |-> "text", text |-> REPLY_OK],
                   [kind |-> "text", text |-> REPLY_SLOW]},
     limit |-> MaxFrames]

FramesNext(s, P) ==
    \/ \E dt \in P.connect_steps : Connect(s, dt)
    \/ \E kind \in P.frame_kinds, dt \in P.steps :
         \E i \in FrameInputs(s, dt, P) :
            FrameMsg(s, P.limit, kind, dt, i.client, i.backend, i.send_ok, i.fail_at)

NextFrames == FramesNext("s1", FramesProfile)

SpecFrames == Init /\ [][NextFrames]_vars

(***************************************************************************)
(* C15.  add_frame grows the recorder's frame sequence by exactly one for  *)
(* a payload that decodes to an image (bare or with a data-URL prefix) and *)
(* leaves it unchanged for one that does not; no exception escapes and the *)
(* session goes on in both cases.                                          *)
(***************************************************************************)
\* The payload of the frame message the step handled.
FrameOf(s) ==
    IF HasCall(trace'[s], "analyze_segment")
    THEN LET frames == CallOf(trace'[s], "analyze_segment").frames
         IN  frames[Len(frames)]
    ELSE session'[s].frame_buffer[Len(session'[s].frame_buffer)]

StoredFrames(sess) ==
    IF sess.video_recorder = None THEN <<>> ELSE sess.video_recorder.frames

Finalized(s) ==
    /\ trace[s].msg = "stop"
    /\ HasCall(trace[s], "save_video")

\* The path save_video returned, as the upload was handed it.
Uploads(s, path) ==
    HasCall(trace[s], "upload_to_supabase")
       => CallOf(trace[s], "upload_to_supabase").video_path = path

(***************************************************************************)
(* C16.  save_video with a consolidated blob runs the primary conversion   *)
(* and, only after it failed, the simplified fallback once; it returns the *)
(* final path when either succeeds and, when both fail, returns an error   *)
(* result with no path.                                                    *)
(***************************************************************************)
C16_BlobChainReturns ==
    \A s \in Sessions :
       Finalized(s) /\ CallOf(trace[s], "save_video").route = "blob" =>
          LET call == CallOf(trace[s], "save_video")
          IN  /\ call.runs \in {<<"primary">>, <<"primary", "fallback">>}
              /\ call.status \in {"path", "none"}
              /\ call.status = "path" => Uploads(s, final_video_path)
              /\ call.status = "none" => ~HasCall(trace[s], "upload_to_supabase")

(***************************************************************************)
(* C17.  At finalize exactly one encoding path is taken: the blob path if  *)
(* and only if the consolidated-blob flag is set, whatever its outcome and *)
(* whether or not frames are buffered, and then neither the frame writer   *)
(* nor the mux run happens; otherwise the frame path only.                 *)
(***************************************************************************)
C17_OneEncodingPath ==
    \A s \in Sessions :
       Finalized(s) =>
          LET call == CallOf(trace[s], "save_video")
              rec  == session[s].video_recorder
          IN  /\ rec.has_combined_blob <=> call.route = "blob"
              /\ call.route = "blob" =>
                    /\ \A i \in DOMAIN call.runs : call.runs[i] \in {"primary", "fallback"}
                    /\ temp_video_path \notin disk[s]
                    /\ temp_audio_path \notin disk[s]
                    /\ call.status = "path" => Uploads(s, final_video_path)
              /\ call.route # "blob" =>
                    /\ \A i \in DOMAIN call.runs : call.runs[i] = "mux"
                    /\ temp_combined_video_path \notin disk[s]

\* A blob and frames were both buffered, the one conversion run ended without a
\* result (the tool is missing), and the frames were left alone.
C17_Witness ==
    \E s \in Sessions :
       /\ Finalized(s)
       /\ session[s].video_recorder.has_combined_blob
       /\ session[s].video_recorder.frames # <<>>
       /\ CallOf(trace[s], "save_video").route = "blob"
       /\ CallOf(trace[s], "save_video").runs = <<"primary">>
       /\ CallOf(trace[s], "save_video").status = "none"
       /\ HasSent(trace[s], "upload_error")

(***************************************************************************)
(* C18.  save_video with buffered frames and no blob never returns an      *)
(* error because of audio muxing: once the mux run is made it returns a    *)
(* path, the muxed final.mp4 or the video-only video.mp4, and with no      *)
(* audio no mux run is made.                                               *)
(***************************************************************************)
C18_MuxNeverFailsFinalize ==
    \A s \in Sessions :
       Finalized(s) /\ CallOf(trace[s], "save_video").route = "frames" =>
          LET call == CallOf(trace[s], "save_video")
              rec  == session[s].video_recorder
          IN  /\ rec.audio_chunks = <<>> => call.runs = <<>>
              /\ call.runs = <<"mux">> =>
                    /\ call.status = "path"
                    /\ \/ Uploads(s, final_video_path)
                       \/ Uploads(s, temp_video_path)

(***************************************************************************)
(* The video_complete handler under every blob payload and write outcome,  *)
(* with frames and stop around it.                                         *)
(***************************************************************************)
BlobProfile ==
    [connect_steps |-> {700}, steps |-> {0, 1500}, clients |-> {TRUE}, sends |-> BOOLEAN,
     faults |-> {0}, blobs |-> BlobPayloads, writes |-> BOOLEAN,
     frame_kinds |-> {"img"},
     backends |-> {[kind |-> "text", text |-> REPLY_SLOW]},
     limit |-> MaxFrames,
     encoders |-> {e \in EncoderOutcomes : e.fallback = "ok" /\ e.mux = "ok" /\ ~e.partial},
     stores |-> {"ok"}, persists |-> {"ok"}, carried |-> {3}]

BlobNext(s, P) ==
    \/ \E dt \in P.connect_steps : Connect(s, dt)
    \/ \E complete_data \in P.blobs, write_ok \in P.writes, send_ok \in P.sends :
         \E fail_at \in FaultsIf(~send_ok, P.faults) :
            VideoComplete(s, complete_data, write_ok, send_ok, fail_at)
    \/ \E kind \in P.frame_kinds, dt \in P.steps :
         \E i \in FrameInputs(s, dt, P) :
            FrameMsg(s, P.limit, kind, dt, i.client, i.backend, i.send_ok, i.fail_at)
    \/ \E i \in StopInputs(s, P) :
         Stop(s, i.enc, i.store, i.persist, i.n_ok, i.fail_at)

NextBlob == BlobNext("s1", BlobProfile)

SpecBlob == Init /\ [][NextBlob]_vars

(***************************************************************************)
(* C19.  When storing the blob of a video_complete message fails (it does  *)
(* not decode, or the write fails) the consolidated-blob flag is cleared,  *)
(* the caller is sent an error notification for the message and no         *)
(* acknowledgment of receipt, and the session goes on.                     *)
(***************************************************************************)
BlobStoreFailed(s) ==
    /\ trace[s].msg = "video_complete"
    /\ HasCall(trace[s], "set_final_webm_blob")
    /\ trace[s].fault = "none"
    /\ ~session[s].video_recorder.has_combined_blob

C19_BlobFailureSurfaced ==
    \A s \in Sessions :
       BlobStoreFailed(s) =>
          /\ session[s].phase = "open"
          /\ ~HasSent(trace[s], "status")
          /\ HasSent(trace[s], "upload_error")

(***************************************************************************)
(* C20.  A frame, audio, video_chunk or video_complete message handled     *)
(* before any auth message is not rejected: the owner stays the anonymous  *)
(* one, the recorder (and for a frame the agent) is constructed and        *)
(* registered on first use, and the message is processed as it is after    *)
(* auth.  Where the transport fails the session ends as for any message.   *)
(***************************************************************************)
MediaTypes == {"frame", "audio", "video_chunk", "video_complete"}

StoredAudio(sess) ==
    IF sess.video_recorder = None THEN <<>> ELSE sess.video_recorder.audio_chunks

\* The step handles a media message in a session no auth message has bound.
MediaBeforeAuth(s) ==
    /\ session[s].phase = "open"
    /\ session[s].user_id = ANONYMOUS
    /\ trace'[s].msg \in MediaTypes
    /\ trace'[s] # trace[s] \/ session'[s] # session[s]

C20_MediaBeforeAuthAccepted ==
    [][\A s \in Sessions :
         MediaBeforeAuth(s) /\ trace'[s].fault = "none" =>
            LET old  == session[s]
                new  == session'[s]
                type == trace'[s].msg
            IN  /\ new.phase = "open"
                /\ new.user_id = ANONYMOUS
                /\ new.video_recorder # None
                /\ new.video_recorder.user_id = ANONYMOUS
                /\ s \in active_recorders'
                /\ (new.feedback_agent # None)
                      <=> (old.feedback_agent # None \/ type = "frame")
                /\ (s \in active_feedback_agents')
                      <=> (s \in active_feedback_agents \/ type = "frame")
                /\ type = "frame" =>
                      /\ new.data_chunk_count = old.data_chunk_count + 1
                      /\ FrameOf(s).id = new.data_chunk_count
                      /\ ~HasSent(trace'[s], "upload_error")
                /\ type = "video_chunk" =>
                      /\ new.data_chunk_count = old.data_chunk_count + 1
                      /\ ~HasSent(trace'[s], "upload_error")
                /\ type = "audio" =>
                      /\ new.audio_buffer # NO_AUDIO
                      /\ new.video_recorder.audio_chunks
                           = AddAudioChunk([audio_chunks |-> StoredAudio(old)],
                                           new.audio_buffer).audio_chunks
                /\ type = "video_complete" /\ HasCall(trace'[s], "set_final_webm_blob") =>
                      /\ new.video_recorder.has_combined_blob
                            => temp_combined_video_path \in disk'[s]
                      /\ HasSent(trace'[s], "status")]_vars

\* The first message of a session was a frame five seconds in: recorder and agent
\* were made for the anonymous owner and the feedback call fired.
C20_Witness ==
    \E s \in Sessions :
       /\ trace[s].msg = "frame"
       /\ session[s].phase = "open"
       /\ session[s].data_chunk_count = 1
       /\ session[s].user_id = ANONYMOUS
       /\ session[s].video_recorder # None
       /\ session[s].video_recorder.user_id = ANONYMOUS
       /\ session[s].video_recorder.frames # <<>>
       /\ s \in active_recorders
       /\ s \in active_feedback_agents
       /\ HasCall(trace[s], "analyze_segment")

(***************************************************************************)
(* C21.  A session that has terminated, by a handled stop or abnormally,   *)
(* is in neither registry, and no later step handles a message for it: its *)
(* locals, its trace and its directory stay as termination left them.      *)
(***************************************************************************)
C21_TerminatedSessionIsGone ==
    [][\A s \in Sessions :
         /\ Terminal(s)' => /\ s \notin active_recorders'
                            /\ s \notin active_feedback_agents'
         /\ Terminal(s) => /\ session'[s] = session[s]
                           /\ trace'[s] = trace[s]
                           /\ disk'[s] = disk[s]]_vars

\* A session that had a recorder and an agent was stopped and left both registries.
C21_Witness ==
    \E s \in Sessions :
       /\ session[s].phase = "closed"
       /\ session[s].video_recorder # None
       /\ session[s].feedback_agent # None
       /\ s \notin active_recorders
       /\ s \notin active_feedback_agents

(***************************************************************************)
(* The frame handler in two steps, for what happens while the inference    *)
(* call is outstanding.  analyze_segment is called, not awaited, inside    *)
(* the handler (line 270): the coroutine of the session is inside the call *)
(* until it returns and reads no message meanwhile.  A stop message the    *)
(* client sends in that time reaches the socket and waits there.           *)
(***************************************************************************)
\* The endpoint of the session is in receive_text.
Receiving(s) == inflight[s].inference = None

\* Lines 243-270: the frame is stored and analyze_segment is called.
InferenceCalled(s, limit, kind, dt, client, backend, send_ok) ==
    /\ session[s].phase = "open"
    /\ Receiving(s)
    /\ ~inflight[s].stop_arrived
    /\ session[s].data_chunk_count < limit
    /\ clock + dt <= MaxClock
    /\ FrameTriggers(s, kind, client, clock + dt)
    /\ Commit(s, FrameStored(s, kind, client), clock + dt)
    /\ inflight' = [inflight EXCEPT ![s].inference =
                       [current_time |-> clock + dt, backend |-> backend,
                        send_ok |-> send_ok]]
    /\ UNCHANGED probe

\* Lines 270-337: analyze_segment returns and the handler runs to its end.
InferenceReturned(s, fail_at) ==
    /\ session[s].phase = "open"
    /\ ~Receiving(s)
    /\ LET call == inflight[s].inference
       IN  Commit(s,
                  FrameStatus(s,
                              Feedback(s, Here(s), call.current_time, call.backend,
                                       call.send_ok),
                              call.send_ok, fail_at),
                  clock)
    /\ inflight' = [inflight EXCEPT ![s].inference = None]
    /\ UNCHANGED probe

\* The client's stop message reaches the socket.
StopArrives(s) ==
    /\ session[s].phase = "open"
    /\ ~inflight[s].stop_arrived
    /\ inflight' = [inflight EXCEPT ![s].stop_arrived = TRUE]
    /\ UNCHANGED <<clock, active_recorders, active_feedback_agents, session, disk, trace,
                   probe>>

OutstandingProfile ==
    [StopProfile EXCEPT !.steps = {0, 1500}, !.sends = {TRUE}, !.faults = {0},
                        !.backends = {[kind |-> "text", text |-> REPLY_OK],
                                      [kind |-> "text", text |-> REPLY_SLOW]},
                        !.encoders = {NoEncoding}, !.stores = {"ok"},
                        !.persists = {"ok", "raise"}, !.carried = {3}]

\* receive_text is reached only between handlers, and returns the messages in
\* the order they arrived.
OutstandingNext(s, P) ==
    \/ \E dt \in P.connect_steps : Connect(s, dt)
    \/ /\ Receiving(s)
       /\ ~inflight[s].stop_arrived
       /\ \E uid \in P.owners, client \in P.clients : Auth(s, uid, client, TRUE, 0)
    \/ /\ Receiving(s)
       /\ ~inflight[s].stop_arrived
       /\ \E audio_data \in P.audios : AudioMsg(s, audio_data)
    \/ /\ Receiving(s)
       /\ ~inflight[s].stop_arrived
       /\ \E dt \in P.steps, kind \in P.frame_kinds, client \in P.clients :
             /\ ~FrameTriggers(s, kind, client, clock + dt)
             /\ FrameMsg(s, P.limit, kind, dt, client,
                         [kind |-> "text", text |-> REPLY_OK], TRUE, 0)
    \/ \E dt \in P.steps, kind \in P.frame_kinds, client \in P.clients,
          backend \in P.backends :
             InferenceCalled(s, P.limit, kind, dt, client, backend, TRUE)
    \/ InferenceReturned(s, 0)
    \/ StopArrives(s)
    \/ /\ Receiving(s)
       /\ inflight[s].stop_arrived
       /\ \E i \in StopInputs(s, P) : Stop(s, i.enc, i.store, i.persist, i.n_ok, i.fail_at)

NextOutstanding == OutstandingNext("s1", OutstandingProfile)

SpecOutstanding == Init /\ [][NextOutstanding]_vars

(***************************************************************************)
(* C22.  When the stop message of a session has arrived while an inference *)
(* call of that session is outstanding, the next thing the session does is *)
(* handle the stop: finalize and flush do not wait for the call to return. *)
(***************************************************************************)
C22_StopDoesNotWaitForInference ==
    [][\A s \in Sessions :
         /\ ~Receiving(s)
         /\ inflight[s].stop_arrived
         /\ <<session'[s], trace'[s]>> # <<session[s], trace[s]>>
         => /\ trace'[s].msg = "stop"
            /\ HasCall(trace'[s], "save_video")
            /\ HasCall(trace'[s], PERSIST)]_vars

(***************************************************************************)
(* Two connections of the same owner, their messages interleaved in any    *)
(* order on the one event loop.                                            *)
(***************************************************************************)
IsolationProfile ==
    [StopProfile EXCEPT !.steps = {1500}, !.sends = {TRUE}, !.faults = {0},
                        !.blobs = {"webm"}, !.limit = MaxFrames,
                        !.encoders = {NoEncoding}, !.stores = {"ok"},
                        !.persists = {"ok"}, !.carried = {3}]

IsolationNext(s, P) ==
    \/ \E dt \in P.connect_steps : Connect(s, dt)
    \/ \E uid \in P.owners, client \in P.clients : Auth(s, uid, client, TRUE, 0)
    \/ \E kind \in P.frame_kinds, dt \in P.steps :
         \E i \in FrameInputs(s, dt, P) :
            FrameMsg(s, P.limit, kind, dt, i.client, i.backend, i.send_ok, i.fail_at)
    \/ \E audio_data \in P.audios : AudioMsg(s, audio_data)
    \/ \E complete_data \in P.blobs, write_ok \in P.writes :
         VideoComplete(s, complete_data, write_ok, TRUE, 0)
    \/ \E i \in StopInputs(s, P) :
         Stop(s, i.enc, i.store, i.persist, i.n_ok, i.fail_at)
    \/ Disconnect(s, 0)

NextIsolation == \E s \in Sessions : IsolationNext(s, IsolationProfile)

SpecIsolation == Init /\ [][NextIsolation]_vars

\* Something of session s differs after the step: its locals, its trace, its
\* directory, or its membership of a registry.
Changed(s) ==
    <<session'[s], trace'[s], disk'[s], s \in active_recorders',
      s \in active_feedback_agents'>>
       # <<session[s], trace[s], disk[s], s \in active_recorders,
           s \in active_feedback_agents>>

(***************************************************************************)
(* C23.  With the messages of several sessions interleaved, a step changes *)
(* the state of at most one session: the locals, trace, directory and      *)
(* registry entries of every other session are as before, and a registry   *)
(* entry is inserted or removed only by the handler of the session whose   *)
(* id is its key.                                                          *)
(***************************************************************************)
C23_SessionsAreIsolated ==
    [][\A s \in Sessions :
         Changed(s) =>
            /\ session'[s] # session[s] \/ trace'[s] # trace[s]
            /\ \A t \in Sessions \ {s} : ~Changed(t)]_vars

\* One session of the owner has been stopped while the other, bound to the same
\* owner, still has its blob on disk, its frames, and its two registry entries.
C23_Witness ==
    /\ session["s1"].phase = "closed"
    /\ session["s1"].user_id = "u1"
    /\ session["s2"].phase = "open"
    /\ session["s2"].user_id = "u1"
    /\ StoredFrames(session["s2"]) # <<>>
    /\ disk["s2"] # {}
    /\ "s2" \in active_recorders
    /\ "s2" \in active_feedback_agents

UPLOAD_FAILED ==
    [type |-> "upload_error", message |-> "Failed to upload video to Supabase"]

\* The stop handler of session s called the upload collaborator and got no URL.
UploadFailed(s) ==
    /\ trace[s].msg = "stop"
    /\ HasCall(trace[s], "upload_to_supabase")
    /\ CallOf(trace[s], "upload_to_supabase").public_url = None

\* The stop handler of session s called the persistence collaborator, which
\* raised or reported failure.
PersistFailed(s) ==
    /\ trace[s].msg = "stop"
    /\ HasCall(trace[s], PERSIST)
    /\ CallOf(trace[s], PERSIST).outcome # "ok"

(***************************************************************************)
(* C24.  While the transport carries the replies, a stop whose upload      *)
(* fails sends upload_error and still runs cleanup, the flush and the      *)
(* removal from both registries; a stop whose segment persistence fails    *)
(* sends feedback_save_error and still empties the log and leaves both     *)
(* registries.  Neither failure ends the session abnormally.               *)
(***************************************************************************)
C24_CollaboratorFailureIsReported ==
    \A s \in Sessions :
       /\ UploadFailed(s) /\ trace[s].fault # "send" =>
             /\ trace[s].fault = "none"
             /\ \E i \in DOMAIN trace[s].sent :
                   /\ trace[s].sent[i].type = UPLOAD_FAILED.type
                   /\ trace[s].sent[i].message = UPLOAD_FAILED.message
             /\ CountCalls(trace[s], "cleanup") = 1
             /\ HasCall(trace[s], PERSIST)
             /\ session[s].phase = "closed"
             /\ s \notin active_recorders
             /\ s \notin active_feedback_agents
       /\ PersistFailed(s) /\ trace[s].fault # "send" =>
             /\ trace[s].fault = "none"
             /\ HasSent(trace[s], "feedback_save_error")
             /\ ~HasSent(trace[s], "feedback_saved")
             /\ session[s].feedback_segments = <<>>
             /\ session[s].phase = "closed"
             /\ s \notin active_recorders
             /\ s \notin active_feedback_agents

\* A stop in which the store raised and the persistence collaborator raised:
\* both failures were reported and the session closed.
C24_Witness ==
    \E s \in Sessions :
       /\ UploadFailed(s)
       /\ PersistFailed(s)
       /\ CallOf(trace[s], PERSIST).outcome = "raise"
       /\ CallOf(trace[s], PERSIST).segments # <<>>
       /\ HasSent(trace[s], "upload_error")
       /\ HasSent(trace[s], "feedback_save_error")
       /\ session[s].phase = "closed"

\* The step is a ping message handled by session s over a transport that
\* carries the reply.
PingHandled(s) ==
    /\ session[s].phase = "open"
    /\ trace'[s].msg = "ping"
    /\ trace'[s].fault = "none"

(***************************************************************************)
(* C25.  A ping handled in an open session, whatever the session has done  *)
(* before, is answered with exactly one pong and nothing else, calls no    *)
(* collaborator, and leaves the session's locals, its directory, the clock *)
(* and both registries as they were.                                       *)
(***************************************************************************)
C25_PingAnsweredWithoutEffect ==
    [][\A s \in Sessions :
         PingHandled(s) =>
            /\ trace'[s].sent = <<[type |-> "pong"]>>
            /\ trace'[s].calls = <<>>
            /\ session'[s] = session[s]
            /\ disk'[s] = disk[s]
            /\ active_recorders' = active_recorders
            /\ active_feedback_agents' = active_feedback_agents]_vars

\* A ping answered in an authenticated session that has a recorder with a
\* stored frame and a logged segment.
C25_Witness ==
    \E s \in Sessions :
       /\ trace[s].msg = "ping"
       /\ trace[s].sent = <<[type |-> "pong"]>>
       /\ session[s].phase = "open"
       /\ session[s].user_id = "u1"
       /\ StoredFrames(session[s]) # <<>>
       /\ session[s].feedback_segments # <<>>
       /\ s \in active_recorders

\* A ping answered before auth in a session without a recorder.
C25_WitnessBare ==
    \E s \in Sessions :
       /\ trace[s].msg = "ping"
       /\ trace[s].sent = <<[type |-> "pong"]>>
       /\ session[s] = NewSession(session[s].session_start_time)

\* The step is a frame message of session s whose handler called analyze_segment.
Triggered(s) ==
    /\ FrameHandled(s)
    /\ HasCall(trace'[s], "analyze_segment")

(***************************************************************************)
(* C26.  On every frame message that triggers feedback, whatever the       *)
(* inference call returns and whether or not the notification is carried,  *)
(* last_feedback_time becomes the time of the trigger, frame_buffer and    *)
(* audio_buffer are emptied, and the recorder keeps every frame and audio  *)
(* chunk it had stored, the frame of this message included.                *)
(***************************************************************************)
C26_TriggerResetsWindowOnly ==
    [][\A s \in Sessions :
         Triggered(s) =>
            LET before == StoredFrames(session[s])
                after  == StoredFrames(session'[s])
            IN  /\ session'[s].last_feedback_time = clock'
                /\ session'[s].frame_buffer = <<>>
                /\ session'[s].audio_buffer = NO_AUDIO
                /\ StoredAudio(session'[s]) = StoredAudio(session[s])
                /\ Len(after) \in {Len(before), Len(before) + 1}
                /\ SubSeq(after, 1, Len(before)) = before
                /\ session'[s].phase = "open"]_vars

\* A trigger whose inference call failed and whose notification was not carried:
\* the window is reset all the same, the recorder keeps its frame and its audio.
C26_Witness ==
    \E s \in Sessions :
       /\ trace[s].msg = "frame"
       /\ HasCall(trace[s], "analyze_segment")
       /\ StartsWith(CallOf(trace[s], "analyze_segment").returned, ANALYZE_ERROR_PREFIX)
       /\ CallOf(trace[s], "analyze_segment").audio_data # NO_AUDIO
       /\ ~HasSent(trace[s], "ai_feedback")
       /\ session[s].frame_buffer = <<>>
       /\ session[s].audio_buffer = NO_AUDIO
       /\ session[s].last_feedback_time = clock
       /\ StoredFrames(session[s]) # <<>>
       /\ StoredAudio(session[s]) # <<>>

(***************************************************************************)
(* Long feedback windows: up to ScenarioFrames frames, each arriving at    *)
(* once or five seconds after the one before, with audio messages between  *)
(* them, so that a window holds more frames than one inference call takes. *)
(***************************************************************************)
WindowProfile ==
    [ScenarioProfile EXCEPT !.steps = {0, FEEDBACK_INTERVAL}, !.clients = {TRUE},
                            !.sends = {TRUE}, !.frame_kinds = {"img"},
                            !.backends = {[kind |-> "text", text |-> REPLY_OK]}]

WindowAudios == {"a1", "junk"}

WindowNext(s, P) ==
    \/ \E dt \in P.connect_steps : Connect(s, dt)
    \/ \E kind \in P.frame_kinds, dt \in P.steps :
         \E i \in FrameInputs(s, dt, P) :
            FrameMsg(s, P.limit, kind, dt, i.client, i.backend, i.send_ok, i.fail_at)
    \/ \E audio_data \in WindowAudios : AudioMsg(s, audio_data)

NextWindow == WindowNext("s1", WindowProfile)

SpecWindow == Init /\ [][NextWindow]_vars

\* The frames are those numbered up to last, one after the other, last the latest.
ArrivedUpTo(frames, last) ==
    \A i \in DOMAIN frames : frames[i].id = last - Len(frames) + i

(***************************************************************************)
(* C27.  A frame message that triggers feedback hands analyze_segment the  *)
(* last min(6, n) of the n frames that arrived since the previous trigger, *)
(* this one included, in arrival order, and the payload of the latest      *)
(* audio message since the previous trigger, or none; the trigger empties  *)
(* both, so nothing older is handed over later.  Between triggers every    *)
(* frame is added to the window and an audio message replaces the latest   *)
(* audio.                                                                  *)
(***************************************************************************)
C27_InferenceGetsLatestWindow ==
    [][\A s \in Sessions :
         /\ FrameHandled(s) =>
               LET arrived == session'[s].data_chunk_count
                   window  == Append(session[s].frame_buffer,
                                     [id |-> arrived, kind |-> FrameOf(s).kind])
                   n       == Len(window)
                   taken   == IF n < WINDOW_FRAMES THEN n ELSE WINDOW_FRAMES
                   call    == CallOf(trace'[s], "analyze_segment")
               IN  /\ ArrivedUpTo(window, arrived)
                   /\ IF HasCall(trace'[s], "analyze_segment")
                      THEN /\ call.frames = SubSeq(window, n - taken + 1, n)
                           /\ call.audio_data = session[s].audio_buffer
                           /\ session'[s].frame_buffer = <<>>
                           /\ session'[s].audio_buffer = NO_AUDIO
                      ELSE /\ session'[s].frame_buffer = window
                           /\ session'[s].audio_buffer = session[s].audio_buffer
         /\ session[s].phase = "open" /\ trace'[s].msg = "audio" =>
               LET stored == StoredAudio(session'[s])
               IN  /\ session'[s].frame_buffer = session[s].frame_buffer
                   /\ session'[s].audio_buffer \in AudioPayloads
                   /\ stored # StoredAudio(session[s])
                         => stored[Len(stored)] = session'[s].audio_buffer]_vars

\* Seven or more frames arrived in one window after an earlier trigger: the call
\* got the last six of them and the audio payload that arrived last.
C27_Witness ==
    \E s \in Sessions :
       /\ trace[s].msg = "frame"
       /\ HasCall(trace[s], "analyze_segment")
       /\ Len(CallOf(trace[s], "analyze_segment").frames) = WINDOW_FRAMES
       /\ CallOf(trace[s], "analyze_segment").frames[1].id = 3
       /\ CallOf(trace[s], "analyze_segment").audio_data = "junk"
       /\ StoredAudio(session[s]) = <<"a1">>
       /\ session[s].last_feedback_time = session[s].session_start_time + 2 * FEEDBACK_INTERVAL

\* A second trigger whose window saw no audio: the audio of the first window is
\* not handed over again.
C27_WitnessNoAudio ==
    \E s \in Sessions :
       /\ trace[s].msg = "frame"
       /\ HasCall(trace[s], "analyze_segment")
       /\ CallOf(trace[s], "analyze_segment").audio_data = NO_AUDIO
       /\ StoredAudio(session[s]) # <<>>

\* The log is in the order of its entries' start_seconds.
OrderedByStart(log) ==
    \A i \in DOMAIN log : \A j \in DOMAIN log : i < j => log[i].start_seconds <= log[j].start_seconds

(***************************************************************************)
(* C28.  The feedback segment log of a session is always ordered by        *)
(* start_seconds, and until the stop handler flushes it every step leaves  *)
(* the entries it had in place and adds new ones only after them.          *)
(***************************************************************************)
C28_LogOrderedAndAppendOnly ==
    [][\A s \in Sessions :
         LET old == session[s].feedback_segments
             new == session'[s].feedback_segments
         IN  /\ OrderedByStart(new)
             /\ trace'[s].msg # "stop" =>
                   /\ Len(new) >= Len(old)
                   /\ SubSeq(new, 1, Len(old)) = old]_vars

\* Two triggers, both actionable: the second entry starts where the first ended.
C28_Witness ==
    \E s \in Sessions :
       /\ Len(session[s].feedback_segments) = 2
       /\ session[s].feedback_segments[1].start_seconds = 0
       /\ session[s].feedback_segments[2].start_seconds
             = session[s].feedback_segments[1].end_seconds
       /\ session[s].feedback_segments[2].start_seconds > 0

(***************************************************************************)
(* The feedback profile over a transport that carries every notification.  *)
(***************************************************************************)
NotifyProfile == [FeedbackProfile EXCEPT !.sends = {TRUE}]

NextNotify == FeedbackNext("s1", NotifyProfile)

SpecNotify == Init /\ [][NextNotify]_vars

\* The ai_feedback notifications among the messages a handler sent.
Notifications(tr) == {i \in DOMAIN tr.sent : tr.sent[i].type = "ai_feedback"}

BoundsFields == {"start_seconds", "end_seconds", "segment_index"}

(***************************************************************************)
(* C29.  Every inference call is followed by exactly one ai_feedback       *)
(* notification, whose message is the judgment as returned.  If the        *)
(* judgment is actionable the log grows by one entry, and the notification *)
(* carries that entry's bounds and segment_index, the number of entries    *)
(* before it in the log; if not, the notification carries neither and the  *)
(* log is as before.                                                       *)
(***************************************************************************)
C29_OneNotificationPerInference ==
    [][\A s \in Sessions :
         Triggered(s) =>
            LET judgment == CallOf(trace'[s], "analyze_segment").returned
                sent     == trace'[s].sent
                old      == session[s].feedback_segments
                new      == session'[s].feedback_segments
            IN  /\ CountCalls(trace'[s], "analyze_segment") = 1
                /\ Cardinality(Notifications(trace'[s])) = 1
                /\ \A i \in Notifications(trace'[s]) :
                      /\ sent[i].message = judgment
                      /\ sent[i].is_actionable = C3_Loggable(judgment)
                      /\ IF C3_Loggable(judgment)
                         THEN /\ BoundsFields \subseteq DOMAIN sent[i]
                              /\ new = Append(old, new[Len(new)])
                              /\ sent[i].segment_index = Len(old)
                              /\ new[sent[i].segment_index + 1].start_seconds
                                    = sent[i].start_seconds
                              /\ new[sent[i].segment_index + 1].end_seconds
                                    = sent[i].end_seconds
                              /\ new[sent[i].segment_index + 1].feedback_text
                                    = Strip(judgment)
                         ELSE /\ BoundsFields \cap DOMAIN sent[i] = {}
                              /\ new = old]_vars

\* The second actionable judgment of a session: its notification carries
\* segment_index 1 and the bounds of the second entry of the log.
C29_Witness ==
    \E s \in Sessions :
       /\ trace[s].msg = "frame"
       /\ HasCall(trace[s], "analyze_segment")
       /\ Len(session[s].feedback_segments) = 2
       /\ \E i \in Notifications(trace[s]) :
             /\ trace[s].sent[i].is_actionable
             /\ trace[s].sent[i].segment_index = 1
             /\ trace[s].sent[i].start_seconds = session[s].feedback_segments[2].start_seconds
             /\ trace[s].sent[i].end_seconds = session[s].feedback_segments[2].end_seconds

\* A judgment that is not actionable: notified, nothing logged.
C29_WitnessNotActionable ==
    \E s \in Sessions :
       /\ trace[s].msg = "frame"
       /\ HasCall(trace[s], "analyze_segment")
       /\ session[s].feedback_segments = <<>>
       /\ \E i \in Notifications(trace[s]) :
             /\ ~trace[s].sent[i].is_actionable
             /\ trace[s].sent[i].message = Strip(REPLY_ok)

(***************************************************************************)
(* C30.  A message whose type is none of those the endpoint dispatches on, *)
(* or that has no type, changes nothing of the session, sends nothing,     *)
(* calls nothing and leaves the session open for the next message.  A stop *)
(* handled before any media message made a recorder ends the session       *)
(* normally whenever the transport carries its reply: no fault, the flush  *)
(* is attempted, the session is closed.                                    *)
(***************************************************************************)
C30_UnknownIgnoredAndEarlyStopNormal ==
    [][\A s \in Sessions :
         /\ session[s].phase = "open" /\ trace'[s].msg = "unknown" =>
               /\ session'[s] = session[s]
               /\ trace'[s].sent = <<>>
               /\ trace'[s].calls = <<>>
               /\ trace'[s].fault = "none"
               /\ disk'[s] = disk[s]
               /\ active_recorders' = active_recorders
               /\ active_feedback_agents' = active_feedback_agents
         /\ StopHandled(s) /\ session[s].video_recorder = None
                           /\ trace'[s].fault # "send" =>
               /\ trace'[s].fault = "none"
               /\ ~HasCall(trace'[s], "save_video")
               /\ ~HasCall(trace'[s], "cleanup")
               /\ HasCall(trace'[s], PERSIST)
               /\ ~HasSent(trace'[s], "upload_error")
               /\ session'[s].phase = "closed"]_vars

\* An unknown message handled in a session that holds a recorder, an agent and
\* a buffered frame: the session is open and as it was.
C30_Witness ==
    \E s \in Sessions :
       /\ trace[s].msg = "unknown"
       /\ trace[s].sent = <<>>
       /\ session[s].phase = "open"
       /\ session[s].frame_buffer # <<>>
       /\ s \in active_recorders
       /\ s \in active_feedback_agents

\* A stop handled as the first message of a session.
C30_WitnessEarlyStop ==
    \E s \in Sessions :
       /\ trace[s].msg = "stop"
       /\ trace[s].fault = "none"
       /\ session[s].phase = "closed"
       /\ session[s].video_recorder = None
       /\ session[s].user_id = ANONYMOUS

\* No entry of the log ends after the next one starts.
NoOverlap(log) ==
    \A k \in 1..(Len(log) - 1) : log[k].end_seconds <= log[k + 1].start_seconds

(***************************************************************************)
(* C31.  With a clock that never goes back, adjacent entries of a          *)
(* session's feedback segment log do not overlap: an entry ends no later   *)
(* than the next one starts, because an entry appended by a trigger starts *)
(* at the offset of the previous trigger, whether or not that one was      *)
(* actionable.                                                             *)
(***************************************************************************)
C31_AdjacentSegmentsDoNotOverlap ==
    [][\A s \in Sessions :
         LET old == session[s].feedback_segments
             new == session'[s].feedback_segments
         IN  /\ NoOverlap(new)
             /\ Triggered(s) /\ Len(new) > Len(old) =>
                   new[Len(new)].start_seconds
                      = Round2(Max(0, session[s].last_feedback_time
                                        - session[s].session_start_time))]_vars

\* Two actionable triggers in a row: the second entry starts exactly where the
\* first ends and is not empty.
C31_Witness ==
    \E s \in Sessions :
       /\ Len(session[s].feedback_segments) = 2
       /\ session[s].feedback_segments[1].end_seconds
             = session[s].feedback_segments[2].start_seconds
       /\ session[s].feedback_segments[2].end_seconds
             > session[s].feedback_segments[2].start_seconds
       /\ session[s].last_feedback_time = clock

\* The step is a trigger of session s that appended an entry to the log.
Logged(s) ==
    /\ Triggered(s)
    /\ Len(session'[s].feedback_segments) = Len(session[s].feedback_segments) + 1

\* No trigger has fired in session s yet: every frame it received is still in
\* the window.
NoTriggerYet(s) == Len(session[s].frame_buffer) = session[s].data_chunk_count

(***************************************************************************)
(* C32.  With a clock that never goes back, every entry appended to the    *)
(* log spans at least FEEDBACK_INTERVAL before rounding: the offset of the *)
(* trigger minus the offset the entry starts at; the entry holds those two *)
(* offsets rounded.  The entry of the first trigger of a session starts    *)
(* at 0.                                                                   *)
(***************************************************************************)
C32_SegmentSpansAnInterval ==
    [][\A s \in Sessions :
         Logged(s) =>
            LET entry  == session'[s].feedback_segments[Len(session'[s].feedback_segments)]
                origin == session[s].session_start_time
                start  == Max(0, session[s].last_feedback_time - origin)
                end    == clock' - origin
            IN  /\ end - start >= FEEDBACK_INTERVAL
                /\ entry.start_seconds = Round2(start)
                /\ entry.end_seconds = Round2(end)
                /\ NoTriggerYet(s) => start = 0 /\ entry.start_seconds = 0]_vars

\* The first frame of a session arrives exactly one interval after the start and
\* is actionable: its entry runs from 0 to the interval.
C32_Witness ==
    \E s \in Sessions :
       /\ trace[s].msg = "frame"
       /\ HasCall(trace[s], "analyze_segment")
       /\ session[s].data_chunk_count = 1
       /\ Len(session[s].feedback_segments) = 1
       /\ session[s].feedback_segments[1].start_seconds = 0
       /\ session[s].feedback_segments[1].end_seconds = Round2(FEEDBACK_INTERVAL)

\* A first entry that spans more than one interval: the first frame came too
\* early to trigger.
C32_WitnessLater ==
    \E s \in Sessions :
       /\ session[s].data_chunk_count = 2
       /\ Len(session[s].feedback_segments) = 1
       /\ session[s].feedback_segments[1].start_seconds = 0
       /\ session[s].feedback_segments[1].end_seconds > Round2(FEEDBACK_INTERVAL)
       /\ HasCall(trace[s], "analyze_segment")
       /\ CallOf(trace[s], "analyze_segment").frames[1].id = 1

(***************************************************************************)
(* C33.  A session has one effective owner id: whenever the stop handler   *)
(* of a session with a recorder calls the upload or the flush, the owner   *)
(* id it passes is the one under which the recorder keeps the session's    *)
(* files, and the upload and the flush get the same one, in whatever order *)
(* auth and media messages arrived.                                        *)
(***************************************************************************)
C33_SingleEffectiveOwner ==
    \A s \in Sessions :
       trace[s].msg = "stop" /\ session[s].video_recorder # None =>
          LET kept == session[s].video_recorder.user_id
          IN  /\ HasCall(trace[s], "upload_to_supabase")
                    => CallOf(trace[s], "upload_to_supabase").user_id = kept
              /\ HasCall(trace[s], PERSIST)
                    => CallOf(trace[s], PERSIST).user_id = kept

\* The types of the messages the latest handler of session s sent, in order.
SentTypes(s) == [i \in DOMAIN trace[s].sent |-> trace[s].sent[i].type]

UploadOutcomeTypes == {"upload_complete", "upload_error"}

FlushOutcomeTypes == {"feedback_saved", "feedback_save_error"}

(***************************************************************************)
(* C34.  While the transport carries them, the messages of a handled stop  *)
(* are, with a recorder: one status, then exactly one of upload_complete   *)
(* and upload_error, then exactly one of feedback_saved and                *)
(* feedback_save_error, and nothing after it; without a recorder: the      *)
(* feedback outcome alone.  upload_complete is sent only when save_video   *)
(* returned a path and the upload returned a URL.                          *)
(***************************************************************************)
C34_StopMessagesInOrder ==
    \A s \in Sessions :
       trace[s].msg = "stop" /\ trace[s].fault # "send" =>
          LET types == SentTypes(s)
          IN  IF session[s].video_recorder # None
              THEN /\ Len(types) = 3
                   /\ types[1] = "status"
                   /\ types[2] \in UploadOutcomeTypes
                   /\ types[3] \in FlushOutcomeTypes
                   /\ types[2] = "upload_complete" =>
                         /\ CallOf(trace[s], "save_video").status = "path"
                         /\ HasCall(trace[s], "upload_to_supabase")
                         /\ CallOf(trace[s], "upload_to_supabase").public_url # None
              ELSE /\ Len(types) = 1
                   /\ types[1] \in FlushOutcomeTypes

(***************************************************************************)
(* The event loop.  uvicorn.run serves every connection on one event loop  *)
(* (main.py 485-486); a coroutine keeps the loop until it awaits.          *)
(* analyze_segment (feedback_agent.py 65, 176) and save_video              *)
(* (video_recorder.py 99, 138) are plain functions called without await,   *)
(* so from the call to the return the loop runs no other coroutine.        *)
(***************************************************************************)
\* Session s is inside analyze_segment or inside save_video.
Busy(s) == inflight[s].inference # None \/ inflight[s].encoding # None

\* The loop is free to resume a coroutine that waits in receive_text.
LoopFree == \A t \in Sessions : ~Busy(t)

\* Lines 354-368: the stop handler calls save_video, which runs the external tool.
EncodingStarted(s, enc, store, persist) ==
    /\ session[s].phase = "open"
    /\ session[s].video_recorder # None
    /\ ~Busy(s)
    /\ inflight' = [inflight EXCEPT ![s].encoding =
                       [enc |-> enc, store |-> store, persist |-> persist]]
    /\ UNCHANGED <<clock, active_recorders, active_feedback_agents, session, disk, trace,
                   probe>>

\* Lines 368-457: save_video returns and the stop handler runs to its end.
EncodingFinished(s) ==
    /\ session[s].phase = "open"
    /\ inflight[s].encoding # None
    /\ LET call == inflight[s].encoding
       IN  Commit(s, StopOutcome(s, call.enc, call.store, call.persist, 3, 0), clock)
    /\ inflight' = [inflight EXCEPT ![s].encoding = None]
    /\ UNCHANGED probe

LoopProfile ==
    [IsolationProfile EXCEPT !.steps = {FEEDBACK_INTERVAL}, !.limit = MaxFrames]

\* A message of session s that is handled without a blocking call.
LoopHandlers(s, P) ==
    \/ \E uid \in P.owners, client \in P.clients : Auth(s, uid, client, TRUE, 0)
    \/ \E audio_data \in P.audios : AudioMsg(s, audio_data)
    \/ Ping(s, TRUE, 0)
    \/ /\ session[s].video_recorder = None
       /\ \E persist \in P.persists : Stop(s, NoEncoding, "ok", persist, 3, 0)

\* The loop receives and processes a message of session s.
Processes(s) ==
    /\ LoopFree
    /\ LoopHandlers(s, LoopProfile)

LoopNext(s, P) ==
    \/ /\ LoopFree
       /\ \E dt \in P.connect_steps : Connect(s, dt)
    \/ Processes(s)
    \/ /\ LoopFree
       /\ \E dt \in P.steps, kind \in P.frame_kinds, client \in P.clients,
             backend \in P.backends :
                InferenceCalled(s, P.limit, kind, dt, client, backend, TRUE)
    \/ InferenceReturned(s, 0)
    \/ /\ LoopFree
       /\ \E enc \in P.encoders, store \in P.stores, persist \in P.persists :
             EncodingStarted(s, enc, store, persist)
    \/ EncodingFinished(s)

NextLoop == \E s \in Sessions : LoopNext(s, LoopProfile)

SpecLoop == Init /\ [][NextLoop]_vars

(***************************************************************************)
(* C35.  While the inference call or the external encoding tool of one     *)
(* session is outstanding, a message of any other open session can still   *)
(* be received and processed.                                              *)
(***************************************************************************)
C35_OtherSessionsProgress ==
    \A s \in Sessions : \A t \in Sessions \ {s} :
       Busy(s) /\ session[t].phase = "open" => ENABLED Processes(t)

=============================================================================
